---------------------------- MODULE Spec2Model ----------------------------
(***************************************************************************)
(* A model of the CropAI backend: the profitability engine                 *)
(* (backend/profitabilityEngine.js), the APMC crop-name resolver           *)
(* (backend/apmcData.js), the operational-details provider, the cache      *)
(* service (backend/services/cacheService.js), the insights service        *)
(* (backend/llmService.js) and the handlers of the four POST endpoints     *)
(* that take a farmer's data (backend/routers).                            *)
(*                                                                         *)
(* JavaScript values are held as tagged records, so that a number, a       *)
(* string, NaN, undefined and null stay distinct values:                   *)
(*   Num(n)  a number; Str(s) a string; NaN; Undefined; Null;              *)
(*   Arr(q)  an array with items q; a plain object is a record whose t is  *)
(*   "object" and whose other fields are its properties.                   *)
(* Money and yields are whole numbers; roi and profitPerQuintal, which the *)
(* code rounds with toFixed(2), are held in hundredths (36.99 is 3699).    *)
(***************************************************************************)
EXTENDS Integers, Sequences, FiniteSets, TLC

VARIABLES
    op,           \* the function that was called last ("idle" before any call)
    input,        \* the arguments of that call, and what its collaborators did
    output,       \* what the call returned, or how its promise settled
    env,          \* process.env: the variables the services read
    redisClient,  \* cacheService: the module's client handle, null before
    cacheEnabled, \* cacheService: the module's flag
    store,        \* the key-value store: entries of key, stored text and TTL
    llmClient,    \* llmService: the module's client handle, null before
    llmProvider   \* llmService: 'together', 'openai' or null

vars == <<op, input, output, env, redisClient, cacheEnabled, store, llmClient, llmProvider>>

\* The state of the services, which the engine's functions do not touch.
serviceVars == <<env, redisClient, cacheEnabled, store, llmClient, llmProvider>>

----------------------------------------------------------------------------
(* JavaScript values *)

Null == [t |-> "null"]
Undefined == [t |-> "undefined"]
NaN == [t |-> "NaN"]
PosInfinity == [t |-> "Infinity"]
NegInfinity == [t |-> "-Infinity"]
Num(n) == [t |-> "number", v |-> n]
Str(s) == [t |-> "string", s |-> s]
Arr(q) == [t |-> "array", items |-> q]

IsNum(x) == x.t = "number"
IsArray(x) == x.t = "array"

\* ToBoolean: 0, NaN, "", null and undefined are falsy, everything else truthy.
True == [t |-> "boolean", b |-> TRUE]
False == [t |-> "boolean", b |-> FALSE]

Truthy(x) ==
    CASE x.t = "number" -> x.v # 0
      [] x.t = "string" -> x.s # ""
      [] x.t = "boolean" -> x.b
      [] x.t \in {"null", "undefined", "NaN"} -> FALSE
      [] OTHER -> TRUE

\* a || b
JsOr(a, b) == IF Truthy(a) THEN a ELSE b

Digits == "0123456789"

DigitVal(c) == (CHOOSE i \in 1..10 : SubSeq(Digits, i, i) = c) - 1

IsDigitString(s) ==
    /\ s # ""
    /\ \A i \in 1..Len(s) : \E j \in 1..10 : SubSeq(Digits, j, j) = SubSeq(s, i, i)

RECURSIVE ParseDigits(_)
ParseDigits(s) ==
    IF s = "" THEN 0
    ELSE 10 * ParseDigits(SubSeq(s, 1, Len(s) - 1)) + DigitVal(SubSeq(s, Len(s), Len(s)))

\* ToNumber, as the arithmetic operators and the comparisons apply it.
ToNumber(x) ==
    CASE x.t = "number" -> x
      [] x.t = "string" -> IF x.s = "" THEN Num(0)
                           ELSE IF IsDigitString(x.s) THEN Num(ParseDigits(x.s))
                           ELSE NaN
      [] x.t = "null" -> Num(0)
      [] x.t \in {"Infinity", "-Infinity"} -> x
      [] OTHER -> NaN

\* ToString of the values the cost sum can meet.
JsToString(x) ==
    CASE x.t = "number" -> ToString(x.v)
      [] x.t = "string" -> x.s
      [] OTHER -> x.t

\* a + b: string concatenation as soon as one side is a string.
JsAdd(a, b) ==
    IF a.t = "string" \/ b.t = "string"
    THEN Str(JsToString(a) \o JsToString(b))
    ELSE LET x == ToNumber(a)
             y == ToNumber(b)
         IN  IF IsNum(x) /\ IsNum(y) THEN Num(x.v + y.v) ELSE NaN

\* a - b
JsSub(a, b) ==
    LET x == ToNumber(a)
        y == ToNumber(b)
    IN  IF IsNum(x) /\ IsNum(y) THEN Num(x.v - y.v) ELSE NaN

\* a * b
JsMul(a, b) ==
    LET x == ToNumber(a)
        y == ToNumber(b)
    IN  IF IsNum(x) /\ IsNum(y) THEN Num(x.v * y.v) ELSE NaN

\* a > n and a >= n for a number n: false whenever a is not a number.
JsGt(a, n) ==
    LET x == ToNumber(a) IN IsNum(x) /\ x.v > n

----------------------------------------------------------------------------
(* JavaScript string methods *)

lowerChars == "abcdefghijklmnopqrstuvwxyz"
upperChars == "ABCDEFGHIJKLMNOPQRSTUVWXYZ"

\* The letters' case maps, character by character.
lowerLetters == {SubSeq(lowerChars, i, i) : i \in 1..Len(lowerChars)}
upperLetters == {SubSeq(upperChars, i, i) : i \in 1..Len(upperChars)}
toUpperMap ==
    [c \in lowerLetters |->
        SubSeq(upperChars, CHOOSE i \in 1..Len(lowerChars) : SubSeq(lowerChars, i, i) = c,
                           CHOOSE i \in 1..Len(lowerChars) : SubSeq(lowerChars, i, i) = c)]
toLowerMap ==
    [c \in upperLetters |->
        SubSeq(lowerChars, CHOOSE i \in 1..Len(upperChars) : SubSeq(upperChars, i, i) = c,
                           CHOOSE i \in 1..Len(upperChars) : SubSeq(upperChars, i, i) = c)]

RECURSIVE toUpperCase(_)
toUpperCase(s) ==
    IF s = "" THEN ""
    ELSE LET c == SubSeq(s, 1, 1)
         IN  (IF c \in lowerLetters THEN toUpperMap[c] ELSE c)
                 \o toUpperCase(SubSeq(s, 2, Len(s)))

RECURSIVE toLowerCase(_)
toLowerCase(s) ==
    IF s = "" THEN ""
    ELSE LET c == SubSeq(s, 1, 1)
         IN  (IF c \in upperLetters THEN toLowerMap[c] ELSE c)
                 \o toLowerCase(SubSeq(s, 2, Len(s)))

RECURSIVE trimStart(_)
trimStart(s) ==
    IF s # "" /\ SubSeq(s, 1, 1) = " " THEN trimStart(SubSeq(s, 2, Len(s))) ELSE s

RECURSIVE trimEnd(_)
trimEnd(s) ==
    IF s # "" /\ SubSeq(s, Len(s), Len(s)) = " "
    THEN trimEnd(SubSeq(s, 1, Len(s) - 1)) ELSE s

trim(s) == trimEnd(trimStart(s))

\* s.includes(t)
includes(s, t) ==
    \E i \in 0..(Len(s) - Len(t)) : SubSeq(s, i + 1, i + Len(t)) = t

\* s.split(' ')[0]
splitFirst(s) ==
    IF \E i \in 1..Len(s) : SubSeq(s, i, i) = " "
    THEN LET i == CHOOSE j \in 1..Len(s) :
                      /\ SubSeq(s, j, j) = " "
                      /\ \A k \in 1..(j - 1) : SubSeq(s, k, k) # " "
         IN  SubSeq(s, 1, i - 1)
    ELSE s

----------------------------------------------------------------------------
(* Reference tables *)

\* obj[k] of a plain object: undefined when the property is absent.
Prop(obj, k) == IF k \in DOMAIN obj THEN obj[k] ELSE Undefined

\* apmcData, in the order its keys were written.
apmcData ==
    << [t |-> "object", crop |-> "TOMATO", region |-> "PALAMANER", totalArrivals |-> 612,
        avgModalPrice |-> 4200, priceVolatility |-> "MEDIUM", demand |-> "HIGH"],
       [t |-> "object", crop |-> "CAULIFLOWER", region |-> "PALAMANER", totalArrivals |-> 167,
        avgModalPrice |-> 1567, priceVolatility |-> "LOW", demand |-> "MEDIUM"],
       [t |-> "object", crop |-> "CABBAGE", region |-> "PALAMANER", totalArrivals |-> 162,
        avgModalPrice |-> 1467, priceVolatility |-> "MEDIUM", demand |-> "MEDIUM"],
       [t |-> "object", crop |-> "GREEN CHILLI", region |-> "PALAMANER", totalArrivals |-> 59,
        avgModalPrice |-> 4167, priceVolatility |-> "MEDIUM", demand |-> "HIGH"],
       [t |-> "object", crop |-> "BRINJAL", region |-> "PALAMANER", totalArrivals |-> 48,
        avgModalPrice |-> 3167, priceVolatility |-> "HIGH", demand |-> "MEDIUM"],
       [t |-> "object", crop |-> "POTATO", region |-> "PALAMANER", totalArrivals |-> 53,
        avgModalPrice |-> 2667, priceVolatility |-> "MEDIUM", demand |-> "MEDIUM"],
       [t |-> "object", crop |-> "BEANS -CLUSTER", region |-> "PALAMANER", totalArrivals |-> 49,
        avgModalPrice |-> 3000, priceVolatility |-> "MEDIUM", demand |-> "MEDIUM"],
       [t |-> "object", crop |-> "RIDGE GOURD (TURAI)", region |-> "PALAMANER", totalArrivals |-> 35,
        avgModalPrice |-> 3500, priceVolatility |-> "HIGH", demand |-> "MEDIUM"] >>

\* cropNameMapping, in the order of Object.entries.
cropNameMapping ==
    << [key |-> "TOMATO", aliases |-> <<"tomato", "tomatoes">>],
       [key |-> "CAULIFLOWER", aliases |-> <<"cauliflower">>],
       [key |-> "CABBAGE", aliases |-> <<"cabbage">>],
       [key |-> "GREEN CHILLI", aliases |-> <<"green chilli", "chilli", "green chili">>],
       [key |-> "BRINJAL", aliases |-> <<"brinjal", "eggplant", "baingan">>],
       [key |-> "POTATO", aliases |-> <<"potato", "potatoes", "aloo">>],
       [key |-> "BEANS -CLUSTER", aliases |-> <<"cluster beans", "beans cluster", "guar">>],
       [key |-> "RIDGE GOURD (TURAI)", aliases |-> <<"ridge gourd", "turai", "beerakaya">>] >>

\* apmcData[key]: the entry of a key, undefined when there is none.
apmcEntry(key) ==
    IF \E i \in 1..Len(apmcData) : apmcData[i].crop = key
    THEN apmcData[CHOOSE i \in 1..Len(apmcData) : apmcData[i].crop = key]
    ELSE Undefined

\* mspData (backend/mspData.js): crop -> fiscal year -> price per quintal.
\* A crop may lack the price of a year.
mspData ==
    << [key |-> "Paddy (Common)",
        msp |-> ("2025-26" :> Num(2369)) @@ ("2024-25" :> Num(2300)) @@ ("2023-24" :> Num(2183))],
       [key |-> "Tur (Arhar)",
        msp |-> ("2025-26" :> Num(8000)) @@ ("2024-25" :> Num(7550)) @@ ("2023-24" :> Num(7000))],
       [key |-> "Moong",
        msp |-> ("2024-25" :> Num(8682)) @@ ("2023-24" :> Num(8558))],
       [key |-> "Ragi",
        msp |-> ("2023-24" :> Num(3846))] >>

----------------------------------------------------------------------------
(* backend/apmcData.js *)

\* alias.toUpperCase() of every alias of every key.
aliasesUpper ==
    [i \in 1..Len(cropNameMapping) |->
        [j \in 1..Len(cropNameMapping[i].aliases) |-> toUpperCase(cropNameMapping[i].aliases[j])]]

\* aliases.some(...) for the i-th entry of cropNameMapping.
aliasMatches(normalizedName, i) ==
    \E j \in 1..Len(aliasesUpper[i]) :
        \/ includes(normalizedName, aliasesUpper[i][j])
        \/ includes(aliasesUpper[i][j], normalizedName)

\* The direct match, then the first entry of cropNameMapping with a matching
\* alias, then null.
lookupNormalized(normalizedName, direct) ==
    LET hits == {i \in 1..Len(cropNameMapping) : aliasMatches(normalizedName, i)}
    IN  IF direct # Undefined THEN direct
        ELSE IF hits # {}
        THEN apmcEntry(cropNameMapping[CHOOSE i \in hits : \A j \in hits : i <= j].key)
        ELSE Null

lookupName(normalizedName) == lookupNormalized(normalizedName, apmcEntry(normalizedName))

getAPMCCropData(cropName) == lookupName(trim(toUpperCase(cropName)))

\* How a call of getAPMCCropData with any value completes: a value that has
\* no toUpperCase method makes the first statement throw.
callGetAPMCCropData(cropName) ==
    IF cropName.t = "string" THEN [thrown |-> FALSE, value |-> getAPMCCropData(cropName.s)]
    ELSE [thrown |-> TRUE,
          value |-> [t |-> "TypeError", message |-> "cropName.toUpperCase is not a function"]]

----------------------------------------------------------------------------
(* backend/profitabilityEngine.js *)

\* The inner loop with = in place of +=.
RECURSIVE sumCategoriesAssign(_, _)
sumCategoriesAssign(categories, totalCost) ==
    IF categories = << >> THEN totalCost
    ELSE LET category == Head(categories)
             next == IF Truthy(category.data) /\ Truthy(Prop(category.data, "totalCost"))
                     THEN category.data.totalCost
                     ELSE totalCost
         IN  sumCategoriesAssign(Tail(categories), next)

\* The inner forEach over a stage's categories, from the running total.
RECURSIVE sumCategories(_, _)
sumCategories(categories, totalCost) ==
    IF categories = << >> THEN totalCost
    ELSE LET category == Head(categories)
             next == IF Truthy(category.data) /\ Truthy(Prop(category.data, "totalCost"))
                     THEN JsAdd(totalCost, category.data.totalCost)
                     ELSE totalCost
         IN  sumCategories(Tail(categories), next)

\* The outer forEach over the stages.
RECURSIVE sumStages(_, _)
sumStages(stages, totalCost) ==
    IF stages = << >> THEN totalCost
    ELSE LET stage == Head(stages)
             next == IF Truthy(stage.categories) /\ IsArray(stage.categories)
                     THEN sumCategories(stage.categories.items, totalCost)
                     ELSE totalCost
         IN  sumStages(Tail(stages), next)

calculateTotalCostFromStages(stages) ==
    IF ~Truthy(stages) \/ ~IsArray(stages) THEN Num(0)
    ELSE sumStages(stages.items, Num(0))

\* Object.keys(mspData).find(...): the first key that contains the crop name,
\* or whose first word the crop name contains, both lower-cased.
\* key.toLowerCase() of every key of mspData.
mspKeysLower == [i \in 1..Len(mspData) |-> toLowerCase(mspData[i].key)]

mspKeyMatches(i, cropNameLower) ==
    \/ includes(mspKeysLower[i], cropNameLower)
    \/ includes(cropNameLower, splitFirst(mspKeysLower[i]))

\* The index of the key found, 0 when find returns undefined.
findMspKey(cropName) ==
    LET cropNameLower == toLowerCase(cropName)
        hits == {i \in 1..Len(mspData) : mspKeyMatches(i, cropNameLower)}
    IN  IF hits = {} THEN 0 ELSE CHOOSE i \in hits : \A j \in hits : i <= j

\* The price choice trying the MSP table first.
incomeFromMspFirst(apmc, mspKey, yieldQty, priceSource) ==
    LET useMsp == mspKey # 0
        useApmc == ~useMsp /\ priceSource = "APMC" /\ Truthy(apmc)
        pricePerQuintal ==
            IF useMsp
            THEN JsOr(Prop(mspData[mspKey].msp, "2025-26"),
                      Prop(mspData[mspKey].msp, "2024-25"))
            ELSE IF useApmc THEN Num(apmc.avgModalPrice)
            ELSE Num(0)
    IN  [pricePerQuintal |-> pricePerQuintal,
         priceSourceUsed |-> IF useMsp THEN "MSP"
                             ELSE IF useApmc THEN "APMC " \o apmc.region ELSE "",
         yieldQty |-> yieldQty,
         expectedIncome |-> JsMul(pricePerQuintal, Num(yieldQty))]

\* The body of calculateExpectedIncome after the two lookups: apmc is what
\* getAPMCCropData returned, mspKey what the search of mspData would find.
incomeFrom(apmc, mspKey, yieldQty, priceSource) ==
    LET useApmc == priceSource = "APMC" /\ Truthy(apmc)
        pricePerQuintal ==
            IF useApmc THEN Num(apmc.avgModalPrice)
            ELSE IF mspKey # 0
            THEN JsOr(Prop(mspData[mspKey].msp, "2025-26"),
                      Prop(mspData[mspKey].msp, "2024-25"))
            ELSE Num(0)
        priceSourceUsed ==
            IF useApmc THEN "APMC " \o apmc.region
            ELSE IF mspKey # 0 THEN "MSP"
            ELSE ""
    IN  [pricePerQuintal |-> pricePerQuintal,
         priceSourceUsed |-> priceSourceUsed,
         yieldQty |-> yieldQty,
         expectedIncome |-> JsMul(pricePerQuintal, Num(yieldQty))]

calculateExpectedIncome(cropName, yieldQty, priceSource) ==
    incomeFrom(getAPMCCropData(cropName), findMspKey(cropName), yieldQty, priceSource)

\* Long division: the quotient acc followed by k more decimal digits of
\* r / b, the last one rounded half up.
RECURSIVE fracDigits(_, _, _, _)
fracDigits(acc, r, b, k) ==
    IF k = 0 THEN acc + (IF 2 * r >= b THEN 1 ELSE 0)
    ELSE fracDigits(acc * 10 + ((r * 10) \div b), (r * 10) % b, b, k - 1)

\* |a| / |b| to k decimal digits, as a whole number of 10^-k, with the sign.
RoundDiv(a, b, k) ==
    LET n == IF a < 0 THEN 0 - a ELSE a
        d == IF b < 0 THEN 0 - b ELSE b
        q == fracDigits(n \div d, n % d, d, k)
    IN  IF (a < 0) = (b < 0) THEN q ELSE 0 - q

\* (a / b * 10^shift).toFixed(2), in hundredths. a / 0 is Infinity, -Infinity
\* or NaN, and NaN stays NaN: toFixed and parseFloat hand those through.
toFixed2(a, b, shift) ==
    LET x == ToNumber(a)
        y == ToNumber(b)
    IN  IF ~(IsNum(x) /\ IsNum(y)) THEN NaN
        ELSE IF y.v = 0
        THEN (IF x.v > 0 THEN PosInfinity ELSE IF x.v < 0 THEN NegInfinity ELSE NaN)
        ELSE Num(RoundDiv(x.v, y.v, shift + 2))

\* parseFloat of a number or of the string toFixed made: the same value.
parseFloat(x) == ToNumber(x)

\* The cost of one stage, as calculateCostBreakdown sums it.
stageCostOf(stage) ==
    IF Truthy(stage.categories) /\ IsArray(stage.categories)
    THEN sumCategories(stage.categories.items, Num(0))
    ELSE Num(0)

\* calculateCostBreakdown: stage name -> cost, stages of no cost left out.
RECURSIVE breakdownOf(_)
breakdownOf(stages) ==
    IF stages = << >> THEN << >>
    ELSE LET stage == Head(stages)
             rest == breakdownOf(Tail(stages))
         IN  IF JsGt(stageCostOf(stage), 0)
             THEN <<[stageName |-> stage.stageName, cost |-> stageCostOf(stage)]>> \o rest
             ELSE rest

calculateCostBreakdown(stages) ==
    IF ~Truthy(stages) \/ ~IsArray(stages) THEN << >> ELSE breakdownOf(stages.items)

\* farmerData?.profile?.metaData?.<field>: undefined when farmerData is null.
farmerField(farmerData, field) ==
    IF Truthy(farmerData) THEN Prop(farmerData, field) ELSE Undefined

\* The ROI without the guard on totalCost.
roiOfUnguarded(profit, totalCost) == toFixed2(profit, totalCost, 2)

\* The ROI cut off after two decimals instead of rounded.
roiOfTruncated(profit, totalCost) ==
    IF JsGt(totalCost, 0) /\ IsNum(ToNumber(profit))
    THEN LET n == IF ToNumber(profit).v < 0 THEN 0 - ToNumber(profit).v
                  ELSE ToNumber(profit).v
             d == ToNumber(totalCost).v
             percent == ((n % d) * 100) \div d
             hundredths == ((((n % d) * 100) % d) * 100) \div d
             q == (n \div d) * 10000 + percent * 100 + hundredths
         IN  Num(IF ToNumber(profit).v < 0 THEN 0 - q ELSE q)
    ELSE IF JsGt(totalCost, 0) THEN NaN
    ELSE Num(0)

\* The ROI of calculateProfitability, in hundredths of a percent.
roiOf(profit, totalCost) ==
    IF JsGt(totalCost, 0) THEN toFixed2(profit, totalCost, 2) ELSE Num(0)

\* The result object of calculateProfitability, from the values its body
\* has computed.
profitabilityResult(totalCost, yieldQuintals, incomeCalc, actualIncome, profit, costBreakdown) ==
    [totalCost |-> totalCost,
     expectedIncome |-> incomeCalc.expectedIncome,
     actualIncome |-> actualIncome,
     profit |-> profit,
     roi |-> parseFloat(roiOf(profit, totalCost)),
     profitPerQuintal |->
        parseFloat(IF yieldQuintals > 0 THEN toFixed2(profit, Num(yieldQuintals), 0)
                   ELSE Num(0)),
     yieldQuintals |-> yieldQuintals,
     pricePerQuintal |-> incomeCalc.pricePerQuintal,
     priceSource |-> incomeCalc.priceSourceUsed,
     costBreakdown |-> costBreakdown]

\* calculateProfitability from the income calculation on.
profitabilityFrom(stages, totalCost, yieldQuintals, incomeCalc, actualIncome) ==
    profitabilityResult(totalCost, yieldQuintals, incomeCalc, actualIncome,
                        JsSub(incomeCalc.expectedIncome, totalCost),
                        calculateCostBreakdown(stages))

\* calculateProfitability from the stages and the yield in kg on.
profitabilityOf(stages, yieldKg, actualIncome, cropName) ==
    profitabilityFrom(stages, calculateTotalCostFromStages(stages), yieldKg.v \div 100,
                      calculateExpectedIncome(cropName, yieldKg.v \div 100, "APMC"),
                      actualIncome)

\* A calculateProfitability that takes the default only for an absent yield
\* (?? in place of ||), and keeps a yield of 0.
calculateProfitabilityKeepingZero(farmerData, cropName) ==
    profitabilityOf(JsOr(farmerField(farmerData, "stages"), Arr(<< >>)),
                    IF farmerField(farmerData, "cropYield") \in {Undefined, Null}
                    THEN Num(7500) ELSE farmerField(farmerData, "cropYield"),
                    JsOr(farmerField(farmerData, "incomeFromYieldSale"), Null),
                    cropName)

calculateProfitability(farmerData, cropName) ==
    profitabilityOf(JsOr(farmerField(farmerData, "stages"), Arr(<< >>)),
                    JsOr(farmerField(farmerData, "cropYield"), Num(7500)),
                    JsOr(farmerField(farmerData, "incomeFromYieldSale"), Null),
                    cropName)

\* The four steps of calculateSuccessRate, each adding to the running score.
completionScore(status) ==
    IF status = Str("COMPLETED") THEN 30
    ELSE IF status = Str("IN_PROGRESS") THEN 15
    ELSE 0

\* The ROI tiers with >= in place of >.
profitabilityScoreInclusive(roi) ==
    IF JsGt(roi, 50 * 100 - 1) THEN 30
    ELSE IF JsGt(roi, 30 * 100 - 1) THEN 25
    ELSE IF JsGt(roi, 10 * 100 - 1) THEN 15
    ELSE IF JsGt(roi, 0 - 1) THEN 10
    ELSE 0

profitabilityScore(roi) ==
    IF JsGt(roi, 50 * 100) THEN 30
    ELSE IF JsGt(roi, 30 * 100) THEN 25
    ELSE IF JsGt(roi, 10 * 100) THEN 15
    ELSE IF JsGt(roi, 0) THEN 10
    ELSE 0

expectedYield == 75

\* yieldRatio >= tenths / 10, with yieldRatio = actualYield / expectedYield.
yieldScore(actualYield) ==
    IF actualYield * 10 >= 10 * expectedYield THEN 20
    ELSE IF actualYield * 10 >= 8 * expectedYield THEN 15
    ELSE IF actualYield * 10 >= 6 * expectedYield THEN 10
    ELSE 0

\* The demand tier with 25 points for HIGH.
demandScoreOverweight(apmc) ==
    IF Truthy(apmc)
    THEN (IF apmc.demand = "HIGH" THEN 25
          ELSE IF apmc.demand = "MEDIUM-HIGH" THEN 15
          ELSE IF apmc.demand = "MEDIUM" THEN 10
          ELSE 0)
    ELSE 10

demandScore(apmc) ==
    IF Truthy(apmc)
    THEN (IF apmc.demand = "HIGH" THEN 20
          ELSE IF apmc.demand = "MEDIUM-HIGH" THEN 15
          ELSE IF apmc.demand = "MEDIUM" THEN 10
          ELSE 0)
    ELSE 10

MathMin(a, b) == IF a < b THEN a ELSE b

calculateSuccessRate(farmerData, profitability, apmc) ==
    MathMin(100, 0 + completionScore(farmerField(farmerData, "status"))
                   + profitabilityScore(profitability.roi)
                   + yieldScore(profitability.yieldQuintals)
                   + demandScore(apmc))

estimatedYield == 75
estimatedCost == 110000

\* Math.round of a whole number or of NaN: the value itself.
MathRound(x) == ToNumber(x)

\* The estimate of the branch without farmer data.
estimateFrom(incomeCalc, profit) ==
    [totalCost |-> Num(estimatedCost),
     expectedIncome |-> incomeCalc.expectedIncome,
     profit |-> profit,
     roi |-> toFixed2(profit, Num(estimatedCost), 2),
     yieldQuintals |-> estimatedYield,
     pricePerQuintal |-> incomeCalc.pricePerQuintal,
     priceSource |-> incomeCalc.priceSourceUsed]

estimateOf(incomeCalc) ==
    estimateFrom(incomeCalc, JsSub(incomeCalc.expectedIncome, Num(estimatedCost)))

\* The returned object, from the branch's profitability and success rate.
recommendationFrom(cropName, apmc, profitability, successRate, landAreaHectares) ==
    [crop |-> cropName,
     expectedIncome |-> MathRound(profitability.expectedIncome),
     demand |-> IF Truthy(apmc) THEN apmc.demand ELSE "MEDIUM",
     successRate |-> successRate,
     profitability |-> [profitability EXCEPT !.roi = parseFloat(profitability.roi)],
     marketData |-> JsOr(apmc, Null),
     areaHectares |-> landAreaHectares]

\* The branch with farmer data.
recommendationWith(cropName, apmc, farmerData, profitability, landAreaHectares) ==
    recommendationFrom(cropName, apmc, profitability,
                       calculateSuccessRate(farmerData, profitability, apmc),
                       landAreaHectares)

\* The estimate for every call, whether or not there is farmer data.
recommendationEstimated(cropName, apmc, farmerData, landAreaHectares) ==
    recommendationFrom(cropName, apmc,
                       estimateOf(calculateExpectedIncome(cropName, estimatedYield, "APMC")),
                       IF Truthy(apmc) THEN (IF apmc.demand = "HIGH" THEN 78 ELSE 65)
                       ELSE 60,
                       landAreaHectares)

recommendationFor(cropName, apmc, farmerData, landAreaHectares) ==
    IF Truthy(farmerData)
    THEN recommendationWith(cropName, apmc, farmerData,
                            calculateProfitability(farmerData, cropName), landAreaHectares)
    ELSE recommendationFrom(cropName, apmc,
                            estimateOf(calculateExpectedIncome(cropName, estimatedYield, "APMC")),
                            IF Truthy(apmc) THEN (IF apmc.demand = "HIGH" THEN 78 ELSE 65)
                            ELSE 60,
                            landAreaHectares)

generateCropRecommendation(cropName, farmerData, landAreaHectares) ==
    recommendationFor(cropName, getAPMCCropData(cropName), farmerData, landAreaHectares)

\* The comparator the other way round: an ascending sort.
compareIncomeAscending(a, b) == JsSub(a.expectedIncome, b.expectedIncome)

\* The comparator of the sort: b.expectedIncome - a.expectedIncome.
compareIncome(a, b) == JsSub(b.expectedIncome, a.expectedIncome)

\* A stable sort by the comparator: x goes before the first element that the
\* comparator puts after it.
RECURSIVE insertSorted(_, _)
insertSorted(sorted, x) ==
    IF sorted = << >> THEN <<x>>
    ELSE IF JsGt(compareIncome(Head(sorted), x), 0)
    THEN <<x>> \o sorted
    ELSE <<Head(sorted)>> \o insertSorted(Tail(sorted), x)

RECURSIVE sortByIncome(_)
sortByIncome(recs) ==
    IF recs = << >> THEN << >>
    ELSE insertSorted(sortByIncome(SubSeq(recs, 1, Len(recs) - 1)), recs[Len(recs)])

\* Array.prototype.sort: the sorted array when the comparator is consistent;
\* any order of the elements when it is not (a NaN difference), which the
\* language leaves to the implementation.
sortOutcomes(recs) ==
    IF \A i \in 1..Len(recs) : IsNum(recs[i].expectedIncome)
    THEN {sortByIncome(recs)}
    ELSE {[i \in 1..Len(recs) |-> recs[p[i]]] : p \in Permutations(1..Len(recs))}

\* array.slice(0, n)
slice0(q, n) ==
    IF n >= 0 THEN SubSeq(q, 1, MathMin(n, Len(q)))
    ELSE SubSeq(q, 1, Len(q) + n)

\* The values getTopProfitableCrops can return; topN undefined is 5.
getTopProfitableCrops(cropList, farmerData, topN) ==
    {slice0(sorted, IF topN = Undefined THEN 5 ELSE topN.v) :
        sorted \in sortOutcomes([i \in 1..Len(cropList) |->
                        generateCropRecommendation(cropList[i], farmerData, "0.6")])}

----------------------------------------------------------------------------
(* The engine's inputs *)

MaxStages == 2
MaxCategories == 2
MaxCrops == 3

SeqsUpTo(S, n) == UNION {[1..k -> S] : k \in 0..n}

\* A cost category: no data, data without totalCost, a zero, a positive and a
\* string totalCost.
CategoryValues ==
    { [category |-> "labour", data |-> Undefined],
      [category |-> "labour", data |-> [t |-> "object"]],
      [category |-> "labour", data |-> [t |-> "object", totalCost |-> Num(0)]],
      [category |-> "labour", data |-> [t |-> "object", totalCost |-> Num(1000)]],
      [category |-> "seed_cost", data |-> [t |-> "object", totalCost |-> Num(2500)]],
      [category |-> "seed_cost", data |-> [t |-> "object", totalCost |-> Str("500")]] }

\* The stages with exactly n categories; with none, also the stage that has
\* no categories array.
StagesWith(n) ==
    {[stageName |-> "Sowing", categories |-> Arr(q)] : q \in [1..n -> CategoryValues]}
        \cup (IF n = 0 THEN {[stageName |-> "Sowing", categories |-> Undefined]} ELSE {})

\* The arrays of at most k stages holding at most budget categories in all.
RECURSIVE StageSeqs(_, _)
StageSeqs(k, budget) ==
    {<< >>} \cup
    (IF k = 0 THEN {}
     ELSE UNION {{<<stage>> \o rest : stage \in StagesWith(n),
                                      rest \in StageSeqs(k - 1, budget - n)} :
                    n \in 0..budget})

StagesInputs ==
    {Undefined, Null, Str("stages"), [t |-> "object"]}
        \cup {Arr(q) : q \in StageSeqs(MaxStages, MaxCategories)}

\* One stage with one category of the given cost.
stagesCosting(n) ==
    Arr(<<[stageName |-> "Land Preparation",
           categories |-> Arr(<<[category |-> "labour",
                                 data |-> [t |-> "object", totalCost |-> Num(n)]]>>)]>>)

FarmerStages ==
    {Undefined, Arr(<< >>)}
        \cup {stagesCosting(n) : n \in {73000, 200000, 240000, 280000, 300000, 400000}}

StatusValues == {Undefined, Str("COMPLETED"), Str("IN_PROGRESS"), Str("NOT_STARTED")}

CropYields == {Undefined, Num(0), Num(4400), Num(4500), Num(6000), Num(7500), Num(9000)}

FarmerDatas ==
    {[t |-> "object", status |-> st, stages |-> sg, cropYield |-> y,
      incomeFromYieldSale |-> Undefined] :
        st \in StatusValues, sg \in FarmerStages, y \in CropYields}

CropNames ==
    {"TOMATO", "tomatoes", " Chilli ", "BRINJAL", "Tur", "Paddy", "Moong", "Ragi", "Mango",
     "banana", ""}

RankedCrops == {"TOMATO", "tomatoes", "BRINJAL", "Ragi", "Mango"}

RoiValues ==
    {NaN} \cup {Num(n) : n \in {0 - 2500, 0, 1, 1000, 1001, 3000, 3001, 3699, 5000, 5001, 21500}}

YieldValues == {0, 44, 45, 59, 60, 74, 75, 90}

ApmcValues ==
    {Null} \cup {[t |-> "object", demand |-> d] :
                    d \in {"HIGH", "MEDIUM-HIGH", "MEDIUM", "LOW-MEDIUM"}}

\* The values getAPMCCropData is called with.
ResolverInputs ==
    {Str(c) : c \in CropNames \cup {"Potato", "aloo", "chil", "Cluster Beans", "-cluster",
                                    "Beans -Cluster (local)", "gourd", "Ridge", "a", "o"}}
        \cup {Undefined, Null, Num(7)}

EngineInputs ==
    {[fn |-> "calculateTotalCostFromStages", stages |-> s] : s \in StagesInputs}
    \cup {[fn |-> "getAPMCCropData", cropName |-> c] : c \in ResolverInputs}
    \cup {[fn |-> "calculateExpectedIncome", cropName |-> c, yieldQty |-> y, priceSource |-> p] :
            c \in CropNames, y \in {0, 75}, p \in {"APMC", "MSP"}}
    \cup {[fn |-> "calculateProfitability", farmerData |-> f, cropName |-> c] :
            f \in FarmerDatas, c \in CropNames}
    \cup {[fn |-> "calculateSuccessRate",
           farmerData |-> [t |-> "object", status |-> st],
           profitability |-> [roi |-> r, yieldQuintals |-> y],
           apmcData |-> a] :
            st \in StatusValues, r \in RoiValues, y \in YieldValues, a \in ApmcValues}
    \cup {[fn |-> "generateCropRecommendation", cropName |-> c, farmerData |-> f] :
            c \in CropNames, f \in {Null} \cup FarmerDatas}
    \cup {[fn |-> "getTopProfitableCrops", cropList |-> l, farmerData |-> f, topN |-> k] :
            l \in SeqsUpTo(RankedCrops, MaxCrops),
            f \in {Null, [t |-> "object", status |-> Str("COMPLETED"),
                          stages |-> stagesCosting(73000), cropYield |-> Num(6000),
                          incomeFromYieldSale |-> Undefined]},
            k \in {Undefined} \cup {Num(n) : n \in (0 - 1)..(MaxCrops + 1)}}

----------------------------------------------------------------------------
(* The engine: one call of one exported function *)

\* The modules as they are loaded, with nothing set in the environment.
ServicesLoaded ==
    /\ env = [CACHE_ENABLED |-> Undefined, CACHE_TTL_HOURS |-> Undefined,
              TOGETHER_API_KEY |-> Undefined, OPENAI_API_KEY |-> Undefined]
    /\ redisClient = Null
    /\ cacheEnabled = TRUE
    /\ store = {}
    /\ llmClient = Null
    /\ llmProvider = Null

InitEngine ==
    /\ op = "idle"
    /\ input \in EngineInputs
    /\ output = Null
    /\ ServicesLoaded

CallTotalCost ==
    /\ op = "idle"
    /\ input.fn = "calculateTotalCostFromStages"
    /\ op' = input.fn
    /\ output' = calculateTotalCostFromStages(input.stages)
    /\ UNCHANGED <<input, serviceVars>>

CallGetAPMCCropData ==
    /\ op = "idle"
    /\ input.fn = "getAPMCCropData"
    /\ op' = input.fn
    /\ output' = callGetAPMCCropData(input.cropName)
    /\ UNCHANGED <<input, serviceVars>>

CallExpectedIncome ==
    /\ op = "idle"
    /\ input.fn = "calculateExpectedIncome"
    /\ op' = input.fn
    /\ output' = calculateExpectedIncome(input.cropName, input.yieldQty, input.priceSource)
    /\ UNCHANGED <<input, serviceVars>>

CallProfitability ==
    /\ op = "idle"
    /\ input.fn = "calculateProfitability"
    /\ op' = input.fn
    /\ output' = calculateProfitability(input.farmerData, input.cropName)
    /\ UNCHANGED <<input, serviceVars>>

CallSuccessRate ==
    /\ op = "idle"
    /\ input.fn = "calculateSuccessRate"
    /\ op' = input.fn
    /\ output' = calculateSuccessRate(input.farmerData, input.profitability, input.apmcData)
    /\ UNCHANGED <<input, serviceVars>>

CallRecommendation ==
    /\ op = "idle"
    /\ input.fn = "generateCropRecommendation"
    /\ op' = input.fn
    /\ output' = generateCropRecommendation(input.cropName, input.farmerData, "0.6")
    /\ UNCHANGED <<input, serviceVars>>

CallTopProfitableCrops ==
    /\ op = "idle"
    /\ input.fn = "getTopProfitableCrops"
    /\ op' = input.fn
    /\ \E r \in getTopProfitableCrops(input.cropList, input.farmerData, input.topN) :
            output' = r
    /\ UNCHANGED <<input, serviceVars>>

NextEngine ==
    \/ CallTotalCost
    \/ CallGetAPMCCropData
    \/ CallExpectedIncome
    \/ CallProfitability
    \/ CallSuccessRate
    \/ CallRecommendation
    \/ CallTopProfitableCrops

SpecEngine == InitEngine /\ [][NextEngine]_vars

----------------------------------------------------------------------------
(* Objects with ordered properties, and JSON *)

\* An object whose property order matters: props are its own properties,
\* [k |-> key, v |-> value], in insertion order.
Obj(props) == [t |-> "Object", props |-> props]

IsObj(x) == x.t = "Object"

\* Object.keys(obj)
ObjectKeys(obj) == [i \in 1..Len(obj.props) |-> obj.props[i].k]

\* obj[key]
Get(obj, key) ==
    IF \E i \in 1..Len(obj.props) : obj.props[i].k = key
    THEN obj.props[CHOOSE i \in 1..Len(obj.props) : obj.props[i].k = key].v
    ELSE Undefined

\* x?.[key]: undefined for null and undefined, and for a value without the
\* property.
OptGet(x, key) == IF IsObj(x) THEN Get(x, key) ELSE Undefined

\* The characters of the keys, in the order of their code units.
codeUnits == "0123456789ABCDEFGHIJKLMNOPQRSTUVWXYZ_abcdefghijklmnopqrstuvwxyz"

codeUnitAt(s, i) == CHOOSE n \in 1..Len(codeUnits) : SubSeq(codeUnits, n, n) = SubSeq(s, i, i)

\* a < b as Array.prototype.sort compares strings by default.
RECURSIVE StringLess(_, _)
StringLess(a, b) ==
    IF b = "" THEN FALSE
    ELSE IF a = "" THEN TRUE
    ELSE IF SubSeq(a, 1, 1) = SubSeq(b, 1, 1)
    THEN StringLess(SubSeq(a, 2, Len(a)), SubSeq(b, 2, Len(b)))
    ELSE codeUnitAt(a, 1) < codeUnitAt(b, 1)

RECURSIVE insertKey(_, _)
insertKey(sorted, key) ==
    IF sorted = << >> THEN <<key>>
    ELSE IF StringLess(key, Head(sorted)) THEN <<key>> \o sorted
    ELSE <<Head(sorted)>> \o insertKey(Tail(sorted), key)

\* keys.sort()
RECURSIVE sort(_)
sort(keys) ==
    IF keys = << >> THEN << >> ELSE insertKey(sort(Tail(keys)), Head(keys))

RECURSIVE join(_, _)
join(parts, sep) ==
    IF parts = << >> THEN ""
    ELSE IF Len(parts) = 1 THEN parts[1]
    ELSE parts[1] \o sep \o join(Tail(parts), sep)

\* QuoteJSONString: a quote and a backslash get a backslash before them, a
\* line break becomes \n.
escapeChar(c) ==
    CASE c = "\"" -> "\\\""
      [] c = "\\" -> "\\\\"
      [] c = "\n" -> "\\n"
      [] OTHER -> c

\* The two halves of a long string are escaped one after the other.
RECURSIVE escapeJSON(_)
escapeJSON(str) ==
    IF Len(str) <= 1 THEN escapeChar(str)
    ELSE escapeJSON(SubSeq(str, 1, Len(str) \div 2))
            \o escapeJSON(SubSeq(str, Len(str) \div 2 + 1, Len(str)))

QuoteJSONString(str) == "\"" \o escapeJSON(str) \o "\""

\* One member of an object's serialization: nothing when the value has none.
memberOf(key, strP) ==
    IF strP = Undefined THEN << >> ELSE <<QuoteJSONString(key) \o ":" \o strP.s>>

\* One element of an array's serialization: null when the value has none.
elementOf(strP) == IF strP = Undefined THEN "null" ELSE strP.s

RECURSIVE SerializeJSONProperty(_, _)
RECURSIVE SerializeMembers(_, _, _)
RECURSIVE SerializeElements(_, _)

\* The members of the keys K of an object, in the order of K.
SerializeMembers(value, K, replacer) ==
    IF K = << >> THEN << >>
    ELSE memberOf(Head(K), SerializeJSONProperty(Get(value, Head(K)), replacer))
            \o SerializeMembers(value, Tail(K), replacer)

SerializeElements(items, replacer) ==
    IF items = << >> THEN << >>
    ELSE <<elementOf(SerializeJSONProperty(Head(items), replacer))>>
            \o SerializeElements(Tail(items), replacer)

\* The text of a value: Str(text), or Undefined for a value JSON leaves out.
\* With an array as the replacer, the keys of EVERY object, nested ones
\* included, are the replacer's items in their order; without one, they are
\* the object's own keys in insertion order.
SerializeJSONProperty(value, replacer) ==
    CASE value.t = "string" -> Str(QuoteJSONString(value.s))
      [] value.t = "number" -> Str(ToString(value.v))
      [] value.t = "boolean" -> Str(IF value.b THEN "true" ELSE "false")
      [] value.t \in {"null", "NaN", "Infinity", "-Infinity"} -> Str("null")
      [] value.t = "array" ->
            Str("[" \o join(SerializeElements(value.items, replacer), ",") \o "]")
      [] value.t = "Object" ->
            Str("{" \o join(SerializeMembers(value,
                                             IF IsArray(replacer) THEN replacer.items
                                             ELSE ObjectKeys(value),
                                             replacer), ",") \o "}")
      [] OTHER -> Undefined

\* JSON.stringify(value, replacer)
JSONstringify(value, replacer) == SerializeJSONProperty(value, replacer)

----------------------------------------------------------------------------
(* cacheService.js: the cache key *)

\* The first 16 hex digits of the SHA-256 digest of a text. The digest is
\* held as the text it was computed from, so that two digests are equal
\* exactly when the texts are: the hash is taken to be collision-free.
sha256hex16(text) == "sha256(" \o text \o ")"

\* The key built from JSON.stringify(params) without the replacer.
generateCacheKeyUnsorted(prefix, params) ==
    prefix \o ":" \o sha256hex16(JSONstringify(params, Undefined).s)

generateCacheKey(prefix, params) ==
    prefix \o ":" \o sha256hex16(JSONstringify(params, Arr(sort(ObjectKeys(params)))).s)

\* The parameter objects of the key: a few request parameters, one of them
\* an object of its own.
MaxParams == 2
MaxNested == 2

ParamNames == {"crop", "landArea", "profile"}
NestedNames == {"gender", "crop", "season"}
NestedValues == {Str("a"), Str("b")}

\* The property lists of at most n distinct names, in every insertion order.
RECURSIVE NestedProps(_, _)
NestedProps(names, n) ==
    {<< >>} \cup
    (IF n = 0 THEN {}
     ELSE UNION {{<<[k |-> name, v |-> val]>> \o rest :
                    val \in NestedValues, rest \in NestedProps(names \ {name}, n - 1)} :
                 name \in names})

NestedObjects == {Obj(props) : props \in NestedProps(NestedNames, MaxNested)}

ParamValues(name) ==
    CASE name = "crop" -> {Str("tomato"), Str("potato"), Undefined}
      [] name = "landArea" -> {Num(1), Num(2), Null, NaN}
      [] name = "profile" -> NestedObjects

RECURSIVE ParamProps(_, _)
ParamProps(names, n) ==
    {<< >>} \cup
    (IF n = 0 THEN {}
     ELSE UNION {{<<[k |-> name, v |-> val]>> \o rest :
                    val \in ParamValues(name), rest \in ParamProps(names \ {name}, n - 1)} :
                 name \in names})

ParamObjects == {Obj(props) : props \in ParamProps(ParamNames, MaxParams)}

\* One call of generateCacheKey.
InitCacheKey ==
    /\ op = "idle"
    /\ input \in {[fn |-> "generateCacheKey", prefix |-> "next-crop-insights", params |-> p] :
                    p \in ParamObjects}
    /\ output = Null
    /\ ServicesLoaded

CallGenerateCacheKey ==
    /\ op = "idle"
    /\ input.fn = "generateCacheKey"
    /\ op' = input.fn
    /\ output' = generateCacheKey(input.prefix, input.params)
    /\ UNCHANGED <<input, serviceVars>>

NextCacheKey == CallGenerateCacheKey

SpecCacheKey == InitCacheKey /\ [][NextCacheKey]_vars

----------------------------------------------------------------------------
(* llmService.js: what the external model can reply *)

\* obj with the property key set to val (added last when it is new).
SetProp(obj, key, val) ==
    IF \E i \in 1..Len(obj.props) : obj.props[i].k = key
    THEN Obj([i \in 1..Len(obj.props) |->
                IF obj.props[i].k = key THEN [k |-> key, v |-> val] ELSE obj.props[i]])
    ELSE Obj(Append(obj.props, [k |-> key, v |-> val]))

\* obj without the property key.
RemoveProp(obj, key) == Obj(SelectSeq(obj.props, LAMBDA p : p.k # key))

\* A reply that follows the structure the prompt asks for.
WellFormedDetails ==
    Obj(<<[k |-> "equipmentNeeded", v |-> Arr(<<Str("Tractor"), Str("Sprayer")>>)],
          [k |-> "effortDistribution",
           v |-> Obj(<<[k |-> "setup", v |-> Num(25)],
                       [k |-> "maintenance", v |-> Num(55)],
                       [k |-> "harvesting", v |-> Num(35)]>>)],
          [k |-> "resourceRequirements",
           v |-> Obj(<<[k |-> "waterNeeded", v |-> Str("1800 L/ha")],
                       [k |-> "fertilizers", v |-> Arr(<<Str("DAP")>>)],
                       [k |-> "pesticides", v |-> Arr(<< >>)]>>)],
          [k |-> "maturityTime", v |-> Num(75)],
          [k |-> "waterRequirement", v |-> Num(1800)],
          [k |-> "laborRequirement", v |-> Num(90)],
          [k |-> "riskLevel", v |-> Str("High")],
          [k |-> "soilConditions",
           v |-> Obj(<<[k |-> "suitability", v |-> Str("Fair")],
                       [k |-> "analysis", v |-> Str("Red loam suits it")]>>)],
          [k |-> "marketAnalysis",
           v |-> Obj(<<[k |-> "profitMargin", v |-> Str("35%")],
                       [k |-> "marketDemand", v |-> Str("Low")]>>)]>>)

\* The values a field can hold in place of the one asked for.
WrongValues ==
    {Num(2500), Num(0), Str("plenty"), Str(""), Null, True, False, Arr(<< >>),
     Arr(<<Num(1)>>), Obj(<< >>)}

\* The fields inside the three nested objects.
NestedFields ==
    {<<"effortDistribution", "setup">>, <<"effortDistribution", "maintenance">>,
     <<"effortDistribution", "harvesting">>, <<"resourceRequirements", "waterNeeded">>,
     <<"resourceRequirements", "fertilizers">>, <<"resourceRequirements", "pesticides">>,
     <<"soilConditions", "suitability">>, <<"soilConditions", "analysis">>,
     <<"marketAnalysis", "profitMargin">>, <<"marketAnalysis", "marketDemand">>}

\* The JSON objects a reply can hold: the well-formed one, the empty one, and
\* the well-formed one with one field missing or holding another value.
ReplyDetails ==
    {WellFormedDetails, Obj(<< >>)}
    \cup {RemoveProp(WellFormedDetails, key) : key \in {p.k : p \in
                {WellFormedDetails.props[i] : i \in 1..Len(WellFormedDetails.props)}}}
    \cup {SetProp(WellFormedDetails, key, w) :
            key \in {WellFormedDetails.props[i].k : i \in 1..Len(WellFormedDetails.props)},
            w \in WrongValues}
    \cup {SetProp(WellFormedDetails, f[1], RemoveProp(Get(WellFormedDetails, f[1]), f[2])) :
            f \in NestedFields}
    \cup {SetProp(WellFormedDetails, f[1], SetProp(Get(WellFormedDetails, f[1]), f[2], w)) :
            f \in NestedFields, w \in WrongValues}

\* s.startsWith(p), s.endsWith(p)
startsWith(s, p) == Len(s) >= Len(p) /\ SubSeq(s, 1, Len(p)) = p

endsWith(s, p) == Len(s) >= Len(p) /\ SubSeq(s, Len(s) - Len(p) + 1, Len(s)) = p

\* s.replace(/^p\n?/, ''): s without the opening p and the line break after
\* it.
dropOpening(s, p) ==
    IF ~startsWith(s, p) THEN s
    ELSE IF startsWith(s, p \o "\n") THEN SubSeq(s, Len(p) + 2, Len(s))
    ELSE SubSeq(s, Len(p) + 1, Len(s))

\* s.replace(/\n?p$/, ''): s without the closing p and the line break before
\* it.
dropClosing(s, p) ==
    IF ~endsWith(s, p) THEN s
    ELSE IF endsWith(s, "\n" \o p) THEN SubSeq(s, 1, Len(s) - Len(p) - 1)
    ELSE SubSeq(s, 1, Len(s) - Len(p))

\* The three backquotes of a code fence. A string of this module cannot hold
\* a backquote: the apostrophe stands for it.
fence == "'''"

\* The clean-up of the reply of the insights endpoint: the code fence around
\* the text is removed.
stripFences(text) ==
    IF startsWith(text, fence \o "json")
    THEN dropClosing(dropOpening(text, fence \o "json"), fence)
    ELSE IF startsWith(text, fence) THEN dropClosing(dropOpening(text, fence), fence)
    ELSE text

\* The JSON object the insights prompt asks for, and one without projections.
FullInsights ==
    Obj(<<[k |-> "projections",
           v |-> Obj(<<[k |-> "expectedYieldKg", v |-> Num(9000)],
                       [k |-> "expectedYieldQuintals", v |-> Num(90)],
                       [k |-> "marketPricePerQuintal", v |-> Num(4000)],
                       [k |-> "estimatedRevenue", v |-> Num(360000)],
                       [k |-> "estimatedProfit", v |-> Num(250000)]>>)],
          [k |-> "riskFactors", v |-> Arr(<<Str("Late monsoon")>>)],
          [k |-> "successFactors", v |-> Arr(<<Str("Staking")>>)],
          [k |-> "comparison",
           v |-> Obj(<<[k |-> "investmentChange", v |-> Str("Higher")],
                       [k |-> "profitImprovement", v |-> Str("20%")],
                       [k |-> "riskLevel", v |-> Str("Medium")]>>)],
          [k |-> "recommendations", v |-> Arr(<<Str("Mulch")>>)],
          [k |-> "insights", v |-> Str("Grows well in Kuppam")]>>)

PartialInsights == Obj(<<[k |-> "insights", v |-> Str("Grows well in Kuppam")]>>)

\* The JSON values a reply of the insights endpoint can be the text of.
InsightValues == {FullInsights, PartialInsights, Null, Num(5)}

\* The object the insights endpoint keeps in the cache.
insightsEntry(parsedInsights, aiInsights) ==
    Obj(<<[k |-> "parsedInsights", v |-> parsedInsights],
          [k |-> "aiInsights", v |-> aiInsights]>>)

notJson == "Tomato is a good choice."

\* The contents of a reply of the insights endpoint.
InsightTexts ==
    {JSONstringify(v, Undefined).s : v \in InsightValues}
    \cup {fence \o "json\n" \o JSONstringify(FullInsights, Undefined).s \o "\n" \o fence,
          fence \o JSONstringify(PartialInsights, Undefined).s \o fence,
          "  " \o JSONstringify(PartialInsights, Undefined).s \o " ",
          notJson}

\* What the endpoint keeps for each of these contents.
InsightEntries ==
    {insightsEntry(v, Str(JSONstringify(v, Undefined).s)) : v \in InsightValues}
    \cup {insightsEntry(Obj(<<[k |-> "rawInsights", v |-> Str(notJson)]>>), Str(notJson))}

----------------------------------------------------------------------------
(* cacheService.js: the operations on the store *)

\* The keys the operations are called with: two of one prefix, one of
\* another.
CacheKeys ==
    {generateCacheKey("next-crop-insights", Obj(<<[k |-> "crop", v |-> Str("tomato")]>>)),
     generateCacheKey("next-crop-insights", Obj(<<[k |-> "crop", v |-> Str("potato")]>>)),
     generateCacheKey("loss-analysis", Obj(<<[k |-> "crop", v |-> Str("tomato")]>>))}

CachePrefixes == {"next-crop-insights", "loss-analysis", "crop"}

\* A value that refers to itself: JSON.stringify throws a TypeError on it.
Circular == [t |-> "circular"]

\* The values handed to set.
CachedValues ==
    {Obj(<<[k |-> "parsedInsights", v |-> Obj(<<[k |-> "rawInsights", v |-> Str("text")]>>)],
           [k |-> "aiInsights", v |-> Obj(<<[k |-> "available", v |-> True]>>)]>>),
     Circular}

\* The values whose JSON texts the store and the callers hold.
JsonValues ==
    (CachedValues \ {Circular}) \cup ReplyDetails \cup InsightValues \cup InsightEntries

\* The JSON text of each of them.
jsonTexts == [v \in JsonValues |-> JSONstringify(v, Undefined).s]

SyntaxError == [t |-> "SyntaxError"]

\* JSON.parse(text): the value the text is the JSON text of, a SyntaxError
\* when it is the text of none.
jsonValueOf ==
    [x \in {jsonTexts[v] : v \in JsonValues} |-> CHOOSE v \in JsonValues : jsonTexts[v] = x]

JSONparse(text) ==
    IF text \in DOMAIN jsonValueOf THEN jsonValueOf[text] ELSE SyntaxError

\* How a block of statements completes: it returns a value or throws one.
Returned(value) == [thrown |-> FALSE, value |-> value]
Thrown(error) == [thrown |-> TRUE, value |-> error]

\* How the promise of an async function settles.
Fulfilled(value) == [settled |-> "fulfilled", value |-> value]
Rejected(error) == [settled |-> "rejected", value |-> error]

\* An async function whose body has no try: what the body throws rejects
\* the promise.
uncaught(completion, fallback) ==
    IF completion.thrown THEN Rejected(completion.value) ELSE Fulfilled(completion.value)

\* try { ... } catch (error) { return fallback }, as the body of an async
\* function.
catchTo(completion, fallback) ==
    IF completion.thrown THEN Fulfilled(fallback) ELSE Fulfilled(completion.value)

\* if (!cacheEnabled || !redisClient)
unavailable == ~cacheEnabled \/ ~Truthy(redisClient)

\* The store's commands. Each one can fail: the reply is then an error.
storeError == [t |-> "Error", message |-> "Connection is closed."]

entriesOf(key) == {e \in store : e.key = key}

\* GET key: the stored text, or null.
redisGet(key) ==
    IF entriesOf(key) = {} THEN Null ELSE Str((CHOOSE e \in entriesOf(key) : TRUE).text)

\* KEYS prefix:* : the keys that start with the prefix and a colon.
redisKeys(prefix) ==
    {e.key : e \in {x \in store : /\ Len(x.key) > Len(prefix)
                                  /\ SubSeq(x.key, 1, Len(prefix) + 1) = prefix \o ":"}}

\* The try block of get.
tryGet(key, storeFails) ==
    IF storeFails THEN Thrown(storeError)
    ELSE IF Truthy(redisGet(key))
    THEN (IF JSONparse(redisGet(key).s) = SyntaxError THEN Thrown(SyntaxError)
          ELSE Returned(JSONparse(redisGet(key).s)))
    ELSE Returned(Null)

get(key, storeFails) ==
    IF unavailable THEN Fulfilled(Null) ELSE catchTo(tryGet(key, storeFails), Null)

\* ttlHours || parseFloat(process.env.CACHE_TTL_HOURS) || 6, in seconds.
ttlSecondsOf(ttlHours) ==
    JsMul(JsOr(ttlHours, JsOr(parseFloat(env.CACHE_TTL_HOURS), Num(6))), Num(3600)).v

\* The try block of set: JSON.stringify runs before the store is called.
trySet(key, value, storeFails) ==
    IF value = Circular THEN Thrown([t |-> "TypeError"])
    ELSE IF storeFails THEN Thrown(storeError)
    ELSE Returned(True)

\* set without its catch block: what the body throws rejects the promise.
setUncaught(key, value, storeFails) ==
    IF unavailable THEN Fulfilled(False) ELSE uncaught(trySet(key, value, storeFails), False)

set(key, value, storeFails) ==
    IF unavailable THEN Fulfilled(False) ELSE catchTo(trySet(key, value, storeFails), False)

\* The try block of del and the function.
tryDel(key, storeFails) == IF storeFails THEN Thrown(storeError) ELSE Returned(True)

del(key, storeFails) ==
    IF unavailable THEN Fulfilled(False) ELSE catchTo(tryDel(key, storeFails), False)

\* The try block of exists: result === 1.
tryExists(key, storeFails) ==
    IF storeFails THEN Thrown(storeError)
    ELSE Returned(IF entriesOf(key) # {} THEN True ELSE False)

exists(key, storeFails) ==
    IF unavailable THEN Fulfilled(False) ELSE catchTo(tryExists(key, storeFails), False)

\* The try block of clearByPrefix: KEYS, and DEL when there are keys.
tryClearByPrefix(prefix, keysFails, delFails) ==
    IF keysFails THEN Thrown(storeError)
    ELSE IF redisKeys(prefix) = {} THEN Returned(Num(0))
    ELSE IF delFails THEN Thrown(storeError)
    ELSE Returned(Num(Cardinality(redisKeys(prefix))))

clearByPrefix(prefix, keysFails, delFails) ==
    IF unavailable THEN Fulfilled(Num(0))
    ELSE catchTo(tryClearByPrefix(prefix, keysFails, delFails), Num(0))

\* The client new Redis(url, options) returns.
RedisClient == [t |-> "Redis", lazyConnect |-> TRUE]

\* The process starts with some environment; the store is there already and
\* may hold what an earlier process or another program wrote.
InitCache ==
    /\ op = "idle"
    /\ input = Null
    /\ output = Null
    /\ env \in {[CACHE_ENABLED |-> e, CACHE_TTL_HOURS |-> h,
                 TOGETHER_API_KEY |-> Undefined, OPENAI_API_KEY |-> Undefined] :
                    e \in {Undefined, Str("false")}, h \in {Undefined, Str("12")}}
    /\ redisClient = Null
    /\ cacheEnabled = TRUE
    /\ store \in {{}} \cup {{[key |-> k, text |-> x, ttl |-> 0 - 1]} :
                                k \in CacheKeys, x \in {"", "{\"parsedInsights\":"}}
    /\ llmClient = Null
    /\ llmProvider = Null

\* initializeRedis(): the constructor may throw.
InitializeRedis ==
    \E constructorThrows \in BOOLEAN :
        /\ op' = "initializeRedis"
        /\ input' = [fn |-> "initializeRedis", constructorThrows |-> constructorThrows]
        /\ IF Truthy(redisClient)
           THEN /\ output' = redisClient
                /\ UNCHANGED <<redisClient, cacheEnabled>>
           ELSE /\ cacheEnabled' = (env.CACHE_ENABLED # Str("false"))
                /\ IF ~cacheEnabled' \/ constructorThrows
                   THEN output' = Null /\ UNCHANGED redisClient
                   ELSE output' = RedisClient /\ redisClient' = RedisClient
        /\ UNCHANGED <<env, store, llmClient, llmProvider>>

CacheGet ==
    \E key \in CacheKeys, storeFails \in BOOLEAN :
        /\ op' = "get"
        /\ input' = [fn |-> "get", key |-> key, storeFails |-> storeFails,
                     stored |-> redisGet(key)]
        /\ output' = get(key, storeFails)
        /\ UNCHANGED serviceVars

CacheSet ==
    \E key \in CacheKeys, value \in CachedValues, ttlHours \in {Null, Num(1)},
       storeFails \in BOOLEAN :
        /\ op' = "set"
        /\ input' = [fn |-> "set", key |-> key, value |-> value, ttlHours |-> ttlHours,
                     storeFails |-> storeFails]
        /\ output' = set(key, value, storeFails)
        /\ store' = IF output' = Fulfilled(True)
                    THEN (store \ entriesOf(key))
                            \cup {[key |-> key, text |-> JSONstringify(value, Undefined).s,
                                   ttl |-> ttlSecondsOf(ttlHours)]}
                    ELSE store
        /\ UNCHANGED <<env, redisClient, cacheEnabled, llmClient, llmProvider>>

CacheDel ==
    \E key \in CacheKeys, storeFails \in BOOLEAN :
        /\ op' = "del"
        /\ input' = [fn |-> "del", key |-> key, storeFails |-> storeFails]
        /\ output' = del(key, storeFails)
        /\ store' = IF output' = Fulfilled(True) THEN store \ entriesOf(key) ELSE store
        /\ UNCHANGED <<env, redisClient, cacheEnabled, llmClient, llmProvider>>

CacheExists ==
    \E key \in CacheKeys, storeFails \in BOOLEAN :
        /\ op' = "exists"
        /\ input' = [fn |-> "exists", key |-> key, storeFails |-> storeFails]
        /\ output' = exists(key, storeFails)
        /\ UNCHANGED serviceVars

CacheClearByPrefix ==
    \E prefix \in CachePrefixes, keysFails \in BOOLEAN, delFails \in BOOLEAN :
        /\ op' = "clearByPrefix"
        /\ input' = [fn |-> "clearByPrefix", prefix |-> prefix, keysFails |-> keysFails,
                     delFails |-> delFails,
                     matched |-> Cardinality(redisKeys(prefix))]
        /\ output' = clearByPrefix(prefix, keysFails, delFails)
        /\ store' = IF output'.settled = "fulfilled" /\ JsGt(output'.value, 0)
                    THEN {e \in store : e.key \notin redisKeys(prefix)}
                    ELSE store
        /\ UNCHANGED <<env, redisClient, cacheEnabled, llmClient, llmProvider>>

\* The store drops an entry when its time to live is over.
Expire ==
    \E e \in store :
        /\ e.ttl > 0
        /\ store' = store \ {e}
        /\ UNCHANGED <<op, input, output, env, redisClient, cacheEnabled, llmClient,
                       llmProvider>>

NextCache ==
    \/ InitializeRedis
    \/ CacheGet
    \/ CacheSet
    \/ CacheDel
    \/ CacheExists
    \/ CacheClearByPrefix
    \/ Expire

SpecCache == InitCache /\ [][NextCache]_vars

----------------------------------------------------------------------------
(* llmService.js: the operational details of a crop *)

\* The clients new OpenAI(...) returns for the two providers.
TogetherClient == [t |-> "OpenAI", baseURL |-> "https://api.together.xyz/v1"]
OpenAIClient == [t |-> "OpenAI", baseURL |-> "https://api.openai.com/v1"]

\* An initializeLLMClient that builds a client from the keys on every call.
clientAfterInitUnmemoized ==
    IF Truthy(env.TOGETHER_API_KEY) THEN TogetherClient
    ELSE IF Truthy(env.OPENAI_API_KEY) THEN OpenAIClient
    ELSE llmClient

\* llmClient and llmProvider after initializeLLMClient().
clientAfterInit ==
    IF Truthy(llmClient) THEN llmClient
    ELSE IF Truthy(env.TOGETHER_API_KEY) THEN TogetherClient
    ELSE IF Truthy(env.OPENAI_API_KEY) THEN OpenAIClient
    ELSE llmClient

providerAfterInit ==
    IF Truthy(llmClient) THEN llmProvider
    ELSE IF Truthy(env.TOGETHER_API_KEY) THEN Str("together")
    ELSE IF Truthy(env.OPENAI_API_KEY) THEN Str("openai")
    ELSE llmProvider

\* The first lines of the prompt; the rest does not depend on the arguments.
buildOperationalDetailsPrompt(cropName, recommendation, farmerData) ==
    "Generate operational details for growing " \o cropName
        \o " - Market Demand: " \o recommendation.demand

\* aiResponse.match(/\{[\s\S]*\}/): from the first { to the last } after it.
matchJson(text) ==
    LET opens == {i \in 1..Len(text) : SubSeq(text, i, i) = "{"}
        first == CHOOSE i \in opens : \A j \in opens : i <= j
        closes == {i \in 1..Len(text) : SubSeq(text, i, i) = "}" /\ i > first}
        last == CHOOSE i \in closes : \A j \in closes : j <= i
    IN  IF opens = {} \/ closes = {} THEN Null ELSE Str(SubSeq(text, first, last))

\* Array.isArray(x) ? x : fallback
arrayOr(x, fallback) == IF IsArray(x) THEN x ELSE fallback

\* typeof x === 'number' ? x : fallback
numberOr(x, fallback) == IF IsNum(x) THEN x ELSE fallback

\* list.includes(x) ? x : fallback
memberOr(x, list, fallback) == IF x \in list THEN x ELSE fallback

validateOperationalDetails(details, cropName, recommendation) ==
    [equipmentNeeded |->
        arrayOr(Get(details, "equipmentNeeded"), Arr(<<Str("Tractor"), Str("Plough")>>)),
     effortDistribution |->
        [setup |-> numberOr(OptGet(Get(details, "effortDistribution"), "setup"), Num(20)),
         maintenance |->
            numberOr(OptGet(Get(details, "effortDistribution"), "maintenance"), Num(50)),
         harvesting |->
            numberOr(OptGet(Get(details, "effortDistribution"), "harvesting"), Num(30))],
     resourceRequirements |->
        [waterNeeded |->
            JsOr(OptGet(Get(details, "resourceRequirements"), "waterNeeded"),
                 Str("2000 L/ha")),
         fertilizers |->
            arrayOr(OptGet(Get(details, "resourceRequirements"), "fertilizers"),
                    Arr(<<Str("Urea")>>)),
         pesticides |->
            arrayOr(OptGet(Get(details, "resourceRequirements"), "pesticides"),
                    Arr(<<Str("Generic Pesticide")>>))],
     maturityTime |-> numberOr(Get(details, "maturityTime"), Num(90)),
     waterRequirement |-> numberOr(Get(details, "waterRequirement"), Num(2000)),
     laborRequirement |-> numberOr(Get(details, "laborRequirement"), Num(100)),
     riskLevel |->
        memberOr(Get(details, "riskLevel"), {Str("Low"), Str("Medium"), Str("High")},
                 Str("Medium")),
     soilConditions |->
        [suitability |->
            memberOr(OptGet(Get(details, "soilConditions"), "suitability"),
                     {Str("Excellent"), Str("Good"), Str("Fair"), Str("Poor")}, Str("Good")),
         analysis |->
            JsOr(OptGet(Get(details, "soilConditions"), "analysis"),
                 Str(cropName \o " is suitable for cultivation in the region"))],
     marketAnalysis |->
        [profitMargin |->
            JsOr(OptGet(Get(details, "marketAnalysis"), "profitMargin"), Str("20%")),
         marketDemand |->
            memberOr(OptGet(Get(details, "marketAnalysis"), "marketDemand"),
                     {Str("High"), Str("Medium"), Str("Low")},
                     JsOr(Str(recommendation.demand), Str("Medium")))]]

\* A classification that tests the pulses before the grains.
categoryOfPulseFirst(cropLower) ==
    IF includes(cropLower, "moong") \/ includes(cropLower, "tur")
        \/ includes(cropLower, "arhar") \/ includes(cropLower, "dal") THEN "pulse"
    ELSE IF includes(cropLower, "rice") \/ includes(cropLower, "wheat")
        \/ includes(cropLower, "maize") THEN "grain"
    ELSE IF includes(cropLower, "cotton") \/ includes(cropLower, "sugarcane") THEN "cash"
    ELSE IF includes(cropLower, "groundnut") \/ includes(cropLower, "sesamum")
        \/ includes(cropLower, "til") THEN "oilseed"
    ELSE "vegetable"

\* The category of getDefaultOperationalDetails, first match first.
categoryOf(cropLower) ==
    IF includes(cropLower, "rice") \/ includes(cropLower, "wheat")
        \/ includes(cropLower, "maize") THEN "grain"
    ELSE IF includes(cropLower, "moong") \/ includes(cropLower, "tur")
        \/ includes(cropLower, "arhar") \/ includes(cropLower, "dal") THEN "pulse"
    ELSE IF includes(cropLower, "cotton") \/ includes(cropLower, "sugarcane") THEN "cash"
    ELSE IF includes(cropLower, "groundnut") \/ includes(cropLower, "sesamum")
        \/ includes(cropLower, "til") THEN "oilseed"
    ELSE "vegetable"

\* One category of the defaults table; effort is setup, maintenance and
\* harvesting, water the litres per hectare.
defaultsRow(equipment, effort, water, fertilizers, pesticides, days, labor, risk, analysis) ==
    [equipmentNeeded |-> Arr([i \in 1..Len(equipment) |-> Str(equipment[i])]),
     effortDistribution |->
        [setup |-> Num(effort[1]), maintenance |-> Num(effort[2]),
         harvesting |-> Num(effort[3])],
     resourceRequirements |->
        [waterNeeded |-> Str(ToString(water) \o " L/ha"),
         fertilizers |-> Arr([i \in 1..Len(fertilizers) |-> Str(fertilizers[i])]),
         pesticides |-> Arr([i \in 1..Len(pesticides) |-> Str(pesticides[i])])],
     maturityTime |-> Num(days),
     waterRequirement |-> Num(water),
     laborRequirement |-> Num(labor),
     riskLevel |-> Str(risk),
     soilConditions |-> [suitability |-> Str("Good"), analysis |-> Str(analysis)]]

defaults ==
    [vegetable |->
        defaultsRow(<<"Tractor", "Drip Irrigation", "Sprayer", "Harvester">>, <<20, 50, 30>>,
                    2500, <<"Urea", "DAP", "Potash">>, <<"Neem Oil", "Insecticide">>,
                    90, 120, "Medium",
                    "Vegetables grow well in well-drained loamy soil with good organic matter"),
     grain |->
        defaultsRow(<<"Tractor", "Seed Drill", "Thresher", "Harvester">>, <<30, 60, 40>>,
                    3000, <<"Urea", "DAP">>, <<"Herbicide", "Fungicide">>,
                    120, 150, "Low",
                    "Grains require fertile soil with good water retention capacity"),
     pulse |->
        defaultsRow(<<"Tractor", "Seed Drill", "Thresher">>, <<15, 40, 25>>,
                    1500, <<"DAP", "Rhizobium">>, <<"Neem Oil">>,
                    80, 80, "Low",
                    "Pulses are well-suited for the region and improve soil nitrogen"),
     cash |->
        defaultsRow(<<"Tractor", "Cotton Picker", "Sprayer">>, <<35, 70, 50>>,
                    4000, <<"Urea", "DAP", "Potash">>, <<"Insecticide", "Herbicide">>,
                    150, 200, "Medium",
                    "Cash crops require well-drained soil with adequate nutrients"),
     oilseed |->
        defaultsRow(<<"Tractor", "Seed Drill", "Harvester">>, <<20, 45, 30>>,
                    2000, <<"DAP", "Urea">>, <<"Insecticide">>,
                    100, 100, "Medium",
                    "Oilseeds grow well in well-drained sandy loam soil")]

\* { ...row, marketAnalysis }
withMarketAnalysis(row, recommendation) ==
    [equipmentNeeded |-> row.equipmentNeeded,
     effortDistribution |-> row.effortDistribution,
     resourceRequirements |-> row.resourceRequirements,
     maturityTime |-> row.maturityTime,
     waterRequirement |-> row.waterRequirement,
     laborRequirement |-> row.laborRequirement,
     riskLevel |-> row.riskLevel,
     soilConditions |-> row.soilConditions,
     marketAnalysis |->
        [profitMargin |-> Str("20%"),
         marketDemand |-> JsOr(Str(recommendation.demand), Str("Medium"))]]

getDefaultOperationalDetails(cropName, recommendation) ==
    withMarketAnalysis(defaults[categoryOf(toLowerCase(cropName))], recommendation)

\* The object of the innermost catch.
basicStructure(cropName, recommendation) ==
    [equipmentNeeded |-> Arr(<<Str("Tractor"), Str("Plough")>>),
     effortDistribution |-> [setup |-> Num(20), maintenance |-> Num(50),
                             harvesting |-> Num(30)],
     resourceRequirements |->
        [waterNeeded |-> Str("2000 L/ha"), fertilizers |-> Arr(<<Str("Urea")>>),
         pesticides |-> Arr(<<Str("Generic Pesticide")>>)],
     maturityTime |-> Num(90),
     waterRequirement |-> Num(2000),
     laborRequirement |-> Num(100),
     riskLevel |-> Str("Medium"),
     soilConditions |->
        [suitability |-> Str("Good"),
         analysis |-> Str(cropName \o " is suitable for cultivation in the region")],
     marketAnalysis |->
        [profitMargin |-> Str("20%"),
         marketDemand |-> JsOr(Str(recommendation.demand), Str("Medium"))]]

\* The try block of generateCropOperationalDetails, given what
\* client.chat.completions.create did: reply.error when it threw, else
\* reply.content, the content of the first choice.
parsedDetails(jsonMatch, cropName, recommendation) ==
    IF jsonMatch = Null THEN Thrown([t |-> "Error", message |-> "No JSON found in AI response"])
    ELSE IF JSONparse(jsonMatch.s) = SyntaxError THEN Thrown(SyntaxError)
    ELSE Returned(validateOperationalDetails(JSONparse(jsonMatch.s), cropName,
                                             recommendation))

tryDetails(reply, cropName, recommendation) ==
    IF reply.error THEN Thrown([t |-> "Error", message |-> "request failed"])
    ELSE IF reply.content.t # "string" THEN Thrown([t |-> "TypeError"])
    ELSE parsedDetails(matchJson(reply.content.s), cropName, recommendation)

\* A catch block that throws the error again, so that the promise rejects.
rethrowDetails(completion, cropName, recommendation) ==
    IF completion.thrown THEN Rejected(completion.value)
    ELSE Fulfilled(completion.value)

\* The catch block: the defaults; a throw of the defaults is caught again.
catchDetails(completion, cropName, recommendation) ==
    IF completion.thrown
    THEN catchTo(Returned(getDefaultOperationalDetails(cropName, recommendation)),
                 basicStructure(cropName, recommendation))
    ELSE Fulfilled(completion.value)

\* generateCropOperationalDetails once initializeLLMClient() has returned
\* client.
generateCropOperationalDetails(client, cropName, recommendation, reply) ==
    IF ~Truthy(client) THEN Fulfilled(getDefaultOperationalDetails(cropName, recommendation))
    ELSE catchDetails(tryDetails(reply, cropName, recommendation), cropName,
                      recommendation)

\* The crops asked about: one of every category of the defaults, a market
\* name in capitals, and mixed stands whose names hold words of two
\* categories.
DetailCrops ==
    {"Tomato", "Rice", "Tur", "Cotton", "Groundnut", "BRINJAL", "Maize + Tur",
     "Moong + Cotton", "Cotton + Groundnut"}

\* The texts around the JSON object of a reply.
jsonMalformed == "{\"riskLevel\": Low}"

ReplyTexts ==
    {JSONstringify(d, Undefined).s : d \in ReplyDetails}
    \cup {"Here is the JSON: " \o JSONstringify(WellFormedDetails, Undefined).s
            \o " Let me know.",
          "I cannot help with that.", jsonMalformed, "{", "} and {",
          JSONstringify(Obj(<< >>), Undefined).s \o " or "
            \o JSONstringify(Obj(<< >>), Undefined).s}

LlmReplies ==
    {[error |-> TRUE, content |-> Null], [error |-> FALSE, content |-> Null]}
    \cup {[error |-> FALSE, content |-> Str(x)] : x \in ReplyTexts}

\* The requests: a crop with its recommendation, and what the external call
\* of this request will do.
DetailRequests ==
    {[fn |-> "generateCropOperationalDetails", cropName |-> c,
      recommendation |-> generateCropRecommendation(c, Null, "0.6"), reply |-> r] :
        c \in DetailCrops, r \in LlmReplies}

\* backend/profitabilityEngine.js has a fallback of its own, used when
\* llmService.js exports no generateCropOperationalDetails or the call
\* throws. Its category:
fallbackCategoryOf(cropLower) ==
    IF includes(cropLower, "rice") \/ includes(cropLower, "wheat")
        \/ includes(cropLower, "maize") THEN "grain"
    ELSE IF includes(cropLower, "moong") \/ includes(cropLower, "tur")
        \/ includes(cropLower, "arhar") \/ includes(cropLower, "dal") THEN "pulse"
    ELSE IF includes(cropLower, "cotton") \/ includes(cropLower, "sugarcane") THEN "cash"
    ELSE IF includes(cropLower, "groundnut") \/ includes(cropLower, "sesamum")
        \/ includes(cropLower, "til") THEN "oilseed"
    ELSE "vegetable"

\* A category of its table: the marketAnalysis is part of every entry.
fallbackRow(row, recommendation) ==
    [f \in DOMAIN row \cup {"marketAnalysis"} |->
        IF f = "marketAnalysis"
        THEN [profitMargin |-> Str("20%"),
              marketDemand |-> IF Truthy(Str(recommendation.demand))
                               THEN Str(recommendation.demand) ELSE Str("Medium")]
        ELSE row[f]]

fallbackDefaults(recommendation) ==
    [vegetable |->
        fallbackRow(defaultsRow(<<"Tractor", "Drip Irrigation", "Sprayer", "Harvester">>,
                                <<20, 50, 30>>, 2500, <<"Urea", "DAP", "Potash">>,
                                <<"Neem Oil", "Insecticide">>, 90, 120, "Medium",
                                "Vegetables grow well in well-drained loamy soil with good organic matter"),
                    recommendation),
     grain |->
        fallbackRow(defaultsRow(<<"Tractor", "Seed Drill", "Thresher", "Harvester">>,
                                <<30, 60, 40>>, 3000, <<"Urea", "DAP">>,
                                <<"Herbicide", "Fungicide">>, 120, 150, "Low",
                                "Grains require fertile soil with good water retention capacity"),
                    recommendation),
     pulse |->
        fallbackRow(defaultsRow(<<"Tractor", "Seed Drill", "Thresher">>,
                                <<15, 40, 25>>, 1500, <<"DAP", "Rhizobium">>,
                                <<"Neem Oil">>, 80, 80, "Low",
                                "Pulses are well-suited for the region and improve soil nitrogen"),
                    recommendation),
     cash |->
        fallbackRow(defaultsRow(<<"Tractor", "Cotton Picker", "Sprayer">>,
                                <<35, 70, 50>>, 4000, <<"Urea", "DAP", "Potash">>,
                                <<"Insecticide", "Herbicide">>, 150, 200, "Medium",
                                "Cash crops require well-drained soil with adequate nutrients"),
                    recommendation),
     oilseed |->
        fallbackRow(defaultsRow(<<"Tractor", "Seed Drill", "Harvester">>,
                                <<20, 45, 30>>, 2000, <<"DAP", "Urea">>,
                                <<"Insecticide">>, 100, 100, "Medium",
                                "Oilseeds grow well in well-drained sandy loam soil"),
                    recommendation)]

\* A fallback whose table has no marketAnalysis.
getDefaultOperationalDetailsFallbackBare(cropName, recommendation) ==
    defaults[fallbackCategoryOf(toLowerCase(cropName))]

getDefaultOperationalDetailsFallback(cropName, recommendation) ==
    fallbackDefaults(recommendation)[fallbackCategoryOf(toLowerCase(cropName))]

\* generateCropOperationalDetails of backend/profitabilityEngine.js: the
\* function of llmService.js when that file exports one, and the fallback
\* when it exports none or its promise is rejected.
engineCropOperationalDetails(exported, client, cropName, recommendation, reply) ==
    IF exported
        /\ generateCropOperationalDetails(client, cropName, recommendation,
                                          reply).settled = "fulfilled"
    THEN generateCropOperationalDetails(client, cropName, recommendation, reply)
    ELSE Fulfilled(getDefaultOperationalDetailsFallback(cropName, recommendation))

\* One request for operational details, in a process started with some
\* environment.
InitDetails ==
    /\ op = "idle"
    /\ input \in DetailRequests
    /\ output = Null
    /\ env \in {[CACHE_ENABLED |-> Undefined, CACHE_TTL_HOURS |-> Undefined,
                 TOGETHER_API_KEY |-> t, OPENAI_API_KEY |-> o] :
                    t \in {Undefined, Str("tk")}, o \in {Undefined, Str("ok")}}
    /\ redisClient = Null
    /\ cacheEnabled = TRUE
    /\ store = {}
    /\ llmClient = Null
    /\ llmProvider = Null

\* initializeLLMClient() called on its own, as the other functions of the
\* service do.
InitializeLLMClient ==
    /\ op = "idle"
    /\ op' = "initializeLLMClient"
    /\ llmClient' = clientAfterInit
    /\ llmProvider' = providerAfterInit
    /\ output' = clientAfterInit
    /\ UNCHANGED <<input, env, redisClient, cacheEnabled, store>>

\* The request is served: initializeLLMClient(), then the external call and
\* what follows it.
GenerateCropOperationalDetails ==
    /\ op \in {"idle", "initializeLLMClient"}
    /\ op' = input.fn
    /\ llmClient' = clientAfterInit
    /\ llmProvider' = providerAfterInit
    /\ output' = generateCropOperationalDetails(clientAfterInit, input.cropName,
                                                input.recommendation, input.reply)
    /\ UNCHANGED <<input, env, redisClient, cacheEnabled, store>>

\* The request is served by generateCropOperationalDetails of
\* backend/profitabilityEngine.js, in a build whose llmService.js exports
\* the function or in one where it does not.
EngineCropOperationalDetails ==
    \E exported \in BOOLEAN :
        /\ op \in {"idle", "initializeLLMClient"}
        /\ op' = IF exported THEN "returned by llmService" ELSE "returned by the fallback"
        /\ llmClient' = IF exported THEN clientAfterInit ELSE llmClient
        /\ llmProvider' = IF exported THEN providerAfterInit ELSE llmProvider
        /\ output' = engineCropOperationalDetails(exported, clientAfterInit, input.cropName,
                                                  input.recommendation, input.reply)
        /\ UNCHANGED <<input, env, redisClient, cacheEnabled, store>>

NextDetails ==
    \/ InitializeLLMClient
    \/ GenerateCropOperationalDetails
    \/ EngineCropOperationalDetails

SpecDetails == InitDetails /\ [][NextDetails]_vars

----------------------------------------------------------------------------
(* generateCropOperationalDetails, step by step *)

\* The promise of a call that has not returned yet.
Pending == [settled |-> "pending", value |-> Undefined]

\* A call in progress: the prompts sent to client.chat.completions.create,
\* how often the defaults were turned to, what the try block completed with
\* (Null while it has not), and the promise the caller holds.
detailsRun(calls, fallbacks, completion, promise) ==
    [calls |-> calls, fallbacks |-> fallbacks, completion |-> completion,
     promise |-> promise]

\* What the external call of a followed request does: it throws, it returns
\* no text, an object, an object inside a sentence, a sentence, a malformed
\* object or an unclosed one.
RunReplies ==
    {[error |-> TRUE, content |-> Null], [error |-> FALSE, content |-> Null]}
    \cup {[error |-> FALSE, content |-> Str(x)] : x \in
            {JSONstringify(Obj(<< >>), Undefined).s,
             "Here is the JSON: " \o JSONstringify(Obj(<< >>), Undefined).s
                \o " Let me know.",
             "I cannot help with that.", jsonMalformed, "{", "} and {"}}

\* The crops of a followed request: one the defaults know by a keyword and
\* one they do not.
RunCrops == {"Tomato", "Rice"}

RunRequests ==
    {[fn |-> "generateCropOperationalDetails", cropName |-> c,
      recommendation |-> generateCropRecommendation(c, Null, "0.6"), reply |-> r] :
        c \in RunCrops, r \in RunReplies}

\* One call, in a process started with some environment.
InitDetailsRun ==
    /\ op = "idle"
    /\ input \in RunRequests
    /\ output = Null
    /\ env \in {[CACHE_ENABLED |-> Undefined, CACHE_TTL_HOURS |-> Undefined,
                 TOGETHER_API_KEY |-> t, OPENAI_API_KEY |-> o] :
                    t \in {Undefined, Str("tk")}, o \in {Undefined, Str("ok")}}
    /\ redisClient = Null
    /\ cacheEnabled = TRUE
    /\ store = {}
    /\ llmClient = Null
    /\ llmProvider = Null

\* The call starts: initializeLLMClient(); without a client it turns to the
\* defaults, with one it builds the prompt and sends the request.
DetailsBegin ==
    /\ op = "idle"
    /\ llmClient' = clientAfterInit
    /\ llmProvider' = providerAfterInit
    /\ IF ~Truthy(clientAfterInit)
       THEN /\ op' = "static-fallback"
            /\ output' = detailsRun(<< >>, 1, Null, Pending)
       ELSE /\ op' = "external-attempt"
            /\ output' = detailsRun(
                    <<buildOperationalDetailsPrompt(input.cropName, input.recommendation,
                                                    Null)>>,
                    0, Null, Pending)
    /\ UNCHANGED <<input, env, redisClient, cacheEnabled, store>>

\* The run after the awaited request has returned or thrown and the try
\* block has run to its end: it returned the validated details, or threw
\* into the catch block.
afterReply(run, completion, cropName, recommendation) ==
    IF completion.thrown
    THEN detailsRun(run.calls, run.fallbacks + 1, completion, Pending)
    ELSE detailsRun(run.calls, run.fallbacks, completion,
                    catchDetails(completion, cropName, recommendation))

DetailsReplyArrives ==
    /\ op = "external-attempt"
    /\ output' = afterReply(output,
                    tryDetails(input.reply, input.cropName, input.recommendation),
                    input.cropName, input.recommendation)
    /\ op' = IF output'.promise = Pending THEN "static-fallback" ELSE "resolved"
    /\ UNCHANGED <<input, env, redisClient, cacheEnabled, store, llmClient, llmProvider>>

\* The defaults are returned: directly when there is no client, from the
\* catch block otherwise.
DetailsFallback ==
    /\ op = "static-fallback"
    /\ op' = "resolved"
    /\ output' = detailsRun(output.calls, output.fallbacks, output.completion,
            IF output.completion = Null
            THEN Fulfilled(getDefaultOperationalDetails(input.cropName,
                                                        input.recommendation))
            ELSE catchDetails(output.completion, input.cropName, input.recommendation))
    /\ UNCHANGED <<input, env, redisClient, cacheEnabled, store, llmClient, llmProvider>>

NextDetailsRun ==
    \/ DetailsBegin
    \/ DetailsReplyArrives
    \/ DetailsFallback

\* Once started, an async function runs until it awaits, and goes on when
\* the awaited request has returned or thrown.
SpecDetailsRun ==
    InitDetailsRun /\ [][NextDetailsRun]_vars /\ WF_vars(NextDetailsRun)

----------------------------------------------------------------------------
(* backend/llmService.js: the insights of the analyze endpoint *)

\* In this file llmClient and llmProvider are the module variables of
\* backend/llmService.js. Its initializeLLMClient() tries OPENAI_API_KEY
\* first.
serviceClientAfterInit ==
    IF Truthy(llmClient) THEN llmClient
    ELSE IF Truthy(env.OPENAI_API_KEY) THEN OpenAIClient
    ELSE IF Truthy(env.TOGETHER_API_KEY) THEN TogetherClient
    ELSE llmClient

serviceProviderAfterInit ==
    IF Truthy(llmClient) THEN llmProvider
    ELSE IF Truthy(env.OPENAI_API_KEY) THEN Str("openai")
    ELSE IF Truthy(env.TOGETHER_API_KEY) THEN Str("together")
    ELSE llmProvider

\* n.toLocaleString('en-IN'): the last three digits, then groups of two.
RECURSIVE groupsOfTwo(_)
groupsOfTwo(n) ==
    IF n < 100 THEN ToString(n)
    ELSE groupsOfTwo(n \div 100) \o ","
            \o (IF n % 100 < 10 THEN "0" ELSE "") \o ToString(n % 100)

groupIndian(n) ==
    IF n < 1000 THEN ToString(n)
    ELSE groupsOfTwo(n \div 1000) \o ","
            \o (IF n % 1000 < 100 THEN "0" ELSE "")
            \o (IF n % 1000 < 10 THEN "0" ELSE "") \o ToString(n % 1000)

\* Of a whole number, or of NaN.
toLocaleString(x) ==
    IF x.t = "number"
    THEN (IF x.v < 0 THEN "-" \o groupIndian(0 - x.v) ELSE groupIndian(x.v))
    ELSE "NaN"

\* `${x}` of a number held in hundredths: 3699 is "36.99", 3150 is "31.5".
hundredthsToString(x) ==
    IF x.t # "number" THEN (IF x.t = "-Infinity" THEN "-Infinity" ELSE x.t)
    ELSE LET n == IF x.v < 0 THEN 0 - x.v ELSE x.v
             frac == n % 100
         IN  (IF x.v < 0 THEN "-" ELSE "") \o ToString(n \div 100)
                \o (IF frac = 0 THEN ""
                    ELSE IF frac % 10 = 0 THEN "." \o ToString(frac \div 10)
                    ELSE "." \o (IF frac < 10 THEN "0" ELSE "") \o ToString(frac))

\* The first lines of the context; it reads the recommendation and never
\* fails on one that generateCropRecommendation made.
buildContextForLLM(cropName, recommendation, farmerData) ==
    "Analyze the profitability and viability of growing " \o cropName
        \o " - Market Demand: " \o recommendation.demand
        \o " - Expected Income: ₹" \o toLocaleString(recommendation.expectedIncome)
        \o " - ROI: " \o hundredthsToString(recommendation.profitability.roi) \o "%"
        \o (IF Truthy(farmerData) THEN " - Farmer Context" ELSE "")

parseInsightsIntoRecommendations(insights) ==
    [suitability |->
        IF includes(toLowerCase(insights), "suitable")
            \/ includes(toLowerCase(insights), "ideal") THEN Str("HIGH")
        ELSE IF includes(toLowerCase(insights), "not recommended")
            \/ includes(toLowerCase(insights), "avoid") THEN Str("LOW")
        ELSE Str("MEDIUM"),
     risks |-> Arr(<< >>),
     bestPractices |-> Arr(<< >>),
     timing |-> Null,
     alternatives |-> Arr(<< >>)]

\* What client.chat.completions.create does is given by reply: reply.error
\* when it threw, else reply.content, the content of the first choice.
requestFailed == [t |-> "Error", message |-> "Connection error."]

\* The try block of generateLLMInsights.
tryInsights(provider, reply) ==
    IF reply.error THEN Thrown(requestFailed)
    ELSE IF reply.content.t # "string"
    THEN Thrown([t |-> "TypeError", message |-> "insights.toLowerCase is not a function"])
    ELSE Returned([available |-> True, provider |-> provider, insights |-> reply.content,
                   recommendations |-> parseInsightsIntoRecommendations(reply.content.s)])

\* The try block of generateBulkInsights: the content is handed on as it is.
tryBulkInsights(provider, reply) ==
    IF reply.error THEN Thrown(requestFailed)
    ELSE Returned([available |-> True, provider |-> provider, insights |-> reply.content])

\* An async function without the catch block: the error rejects the promise.
rethrowInsights(completion) ==
    IF completion.thrown THEN Rejected(completion.value) ELSE Fulfilled(completion.value)

\* catch (error) { return { available: false, error: error.message } }
catchInsights(completion) ==
    IF completion.thrown
    THEN Fulfilled([available |-> False, error |-> Str(completion.value.message)])
    ELSE Fulfilled(completion.value)

notConfigured ==
    "LLM service not configured. Please set OPENAI_API_KEY or TOGETHER_API_KEY environment variable."

\* generateLLMInsights once initializeLLMClient() has returned client.
generateLLMInsights(client, provider, cropName, recommendation, farmerData, reply) ==
    IF ~Truthy(client)
    THEN Fulfilled([available |-> False, message |-> Str(notConfigured)])
    ELSE catchInsights(tryInsights(provider, reply))

\* crops.map(c => c.crop).join(', ')
RECURSIVE cropListOf(_)
cropListOf(crops) ==
    IF crops = << >> THEN ""
    ELSE crops[1].crop \o (IF Len(crops) > 1 THEN ", " ELSE "") \o cropListOf(Tail(crops))

\* The requests a function sends to the external model: none without a
\* client, else one with the prompt built from the arguments.
llmCall(prompt) == [to |-> "llm", prompt |-> prompt]

insightsCalls(client, cropName, recommendation, farmerData) ==
    IF ~Truthy(client) THEN << >>
    ELSE <<llmCall(buildContextForLLM(cropName, recommendation, farmerData))>>

bulkInsightsCalls(client, crops) ==
    IF ~Truthy(client) THEN << >>
    ELSE <<llmCall("Compare these crops for profitability in KUPPAM/PALAMANER region: "
                    \o cropListOf(crops))>>

\* generateBulkInsights once initializeLLMClient() has returned client.
generateBulkInsights(client, provider, crops, reply) ==
    IF ~Truthy(client) THEN Fulfilled([available |-> False])
    ELSE catchInsights(tryBulkInsights(provider, reply))

----------------------------------------------------------------------------
(* backend/routers/profitableCrops.js: POST /api/profitable-crops/analyze *)

\* What a handler sends: res.status(code).json(body), res.json(body) being
\* status 200.
Response(status, body) == [status |-> status, body |-> body]

\* What serving one request did: the response sent, the calls made to the
\* external model and to the cache service in their order, and the module
\* variables of llmService.js afterwards.
Served(response, calls) == [response |-> response, calls |-> calls]

\* The analysis object of the response.
analysisOf(recommendation) ==
    [expectedIncome |-> "₹" \o toLocaleString(recommendation.expectedIncome),
     demand |-> recommendation.demand,
     successRate |-> ToString(recommendation.successRate) \o "%",
     profitability |->
        [roi |-> hundredthsToString(recommendation.profitability.roi) \o "%",
         totalCost |->
            "₹" \o toLocaleString(MathRound(recommendation.profitability.totalCost)),
         profit |-> "₹" \o toLocaleString(MathRound(recommendation.profitability.profit)),
         pricePerQuintal |->
            "₹" \o JsToString(recommendation.profitability.pricePerQuintal) \o "/quintal",
         priceSource |-> recommendation.profitability.priceSource,
         costBreakdown |-> Prop(recommendation.profitability, "costBreakdown")],
     marketData |-> recommendation.marketData]

\* The catch block of the handler.
analyzeFailed(error) == Response(500, [success |-> FALSE, error |-> error.message])

\* The handler from the insights on: a rejected promise is thrown at the
\* await and caught by the handler.
analyzeRespond(cropName, recommendation, llmInsights) ==
    IF llmInsights # Null /\ llmInsights.settled = "rejected"
    THEN analyzeFailed(llmInsights.value)
    ELSE Response(200, [success |-> TRUE,
                        crop |-> cropName,
                        analysis |-> analysisOf(recommendation),
                        llmInsights |-> IF llmInsights = Null THEN Null
                                        ELSE llmInsights.value])

\* if (process.env.OPENAI_API_KEY || process.env.TOGETHER_API_KEY)
keyAvailable == Truthy(env.OPENAI_API_KEY) \/ Truthy(env.TOGETHER_API_KEY)

\* The handler once the recommendation is there.
analyzeWith(cropName, farmerData, recommendation, reply) ==
    IF keyAvailable
    THEN Served(analyzeRespond(cropName, recommendation,
                               generateLLMInsights(serviceClientAfterInit,
                                                   serviceProviderAfterInit, cropName.s,
                                                   recommendation, farmerData, reply)),
                insightsCalls(serviceClientAfterInit, cropName.s, recommendation,
                              farmerData))
    ELSE Served(analyzeRespond(cropName, recommendation, Null), << >>)

\* router.post('/analyze'): the body of the request and what the external
\* call of this request will do.
postAnalyze(body, reply) ==
    IF ~Truthy(body.cropName)
    THEN Served(Response(400, [success |-> FALSE, error |-> "cropName is required"]), << >>)
    ELSE IF body.cropName.t # "string"
    THEN Served(analyzeFailed([t |-> "TypeError",
                               message |-> "cropName.toUpperCase is not a function"]),
                << >>)
    ELSE analyzeWith(body.cropName, body.farmerData,
                     generateCropRecommendation(body.cropName.s, body.farmerData, "0.6"),
                     reply)

----------------------------------------------------------------------------
(* backend/routers/nextCropInsights.js: POST /api/next-crop-insights *)

\* Land areas are held in hundredths of a hectare (0.6 ha is 60), and an
\* acre is 2.47 of them.
stageNames ==
    <<"Treating Soil", "Land Preparation", "Sowing", "Crop Protection", "Vegetative Stage",
      "Flowering", "Fruiting", "Harvesting", "Post Harvest">>

\* s.replace(/_/g, ' ')
RECURSIVE replaceUnderscores(_)
replaceUnderscores(s) ==
    IF s = "" THEN ""
    ELSE (IF SubSeq(s, 1, 1) = "_" THEN " " ELSE SubSeq(s, 1, 1))
            \o replaceUnderscores(SubSeq(s, 2, Len(s)))

\* The category name of a breakdown: lower case, first letter upper case.
categoryNameOf(name) ==
    toUpperCase(SubSeq(toLowerCase(replaceUnderscores(name)), 1, 1))
        \o SubSeq(toLowerCase(replaceUnderscores(name)), 2, Len(name))

\* getCategoryDetails: the properties of data that are truthy, under the
\* names they have in details.
detailNames ==
    <<<<"days", "days">>, <<"persons", "persons">>, <<"wagePerDay", "wagePerDay">>,
      <<"quantity", "quantity">>, <<"equipmentName", "equipment">>,
      <<"costPerDay", "costPerDay">>>>

RECURSIVE detailsFrom(_, _)
detailsFrom(data, names) ==
    IF names = << >> THEN << >>
    ELSE (IF Truthy(Prop(data, names[1][1]))
          THEN <<[k |-> names[1][2], v |-> data[names[1][1]]]>>
          ELSE << >>) \o detailsFrom(data, Tail(names))

getCategoryDetails(category) == Obj(detailsFrom(category.data, detailNames))

\* The breakdown of one stage: its categories that have a cost.
RECURSIVE breakdownEntries(_)
breakdownEntries(categories) ==
    IF categories = << >> THEN << >>
    ELSE (IF Truthy(Head(categories).data)
                /\ Truthy(Prop(Head(categories).data, "totalCost"))
          THEN <<[category |-> categoryNameOf(Head(categories).category),
                  cost |-> Head(categories).data.totalCost,
                  details |-> getCategoryDetails(Head(categories))]>>
          ELSE << >>) \o breakdownEntries(Tail(categories))

\* Math.round(cost / (landArea * 2.47))
perAcre(cost, landArea) ==
    IF IsNum(ToNumber(cost)) THEN Num(RoundDiv(ToNumber(cost).v * 10000, landArea * 247, 0))
    ELSE NaN

\* One element of stageInvestments; index counts from 1 here.
stageInvestment(stage, index, totalCost, landArea) ==
    [stage |-> index,
     name |-> IF index <= Len(stageNames) THEN stageNames[index] ELSE stage.stageName,
     totalCost |-> totalCost,
     costPerAcre |-> perAcre(totalCost, landArea),
     breakdown |-> IF Truthy(stage.categories) /\ IsArray(stage.categories)
                   THEN breakdownEntries(stage.categories.items)
                   ELSE << >>]

\* stageInvestments.reduce((sum, stage) => sum + stage.totalCost, 0)
RECURSIVE sumInvestments(_, _)
sumInvestments(stageInvestments, sum) ==
    IF stageInvestments = << >> THEN sum
    ELSE sumInvestments(Tail(stageInvestments), JsAdd(sum, Head(stageInvestments).totalCost))

investmentOf(stageInvestments, totalInvestment, landArea) ==
    [totalInvestment |-> totalInvestment,
     totalInvestmentPerAcre |-> perAcre(totalInvestment, landArea),
     stages |-> stageInvestments,
     landAreaHectares |-> landArea,
     landAreaAcres |-> RoundDiv(landArea * 247, 100, 0)]

\* calculateStageWiseInvestment of an array of stages none of which is null.
calculateStageWiseInvestment(stages, crop, landArea) ==
    investmentOf([i \in 1..Len(stages) |->
                    stageInvestment(stages[i], i, stageCostOf(stages[i]), landArea)],
                 sumInvestments([i \in 1..Len(stages) |-> [totalCost |-> stageCostOf(stages[i])]],
                                Num(0)),
                 landArea)

\* getMarketData. The market price comes from the APMC table (its price
\* range is left out here); msp is what the look-up in the result of
\* getMSPData() gave: no price, or a price with its trend and category.
marketDataOf(apmc, msp) ==
    [marketPrice |-> IF Truthy(apmc)
                     THEN [t |-> "object", price |-> Num(apmc.avgModalPrice),
                           source |-> "APMC " \o apmc.region]
                     ELSE Null,
     mspPrice |-> msp]

getMarketData(crop, msp) == marketDataOf(getAPMCCropData(crop), msp)

\* getApplicableGovernmentSchemes: the name and the applicability of each
\* scheme.
scheme(name, applicability) == [name |-> name, applicability |-> applicability]

getApplicableGovernmentSchemes(farmerProfile, crop) ==
    <<scheme("PM-KISAN (Pradhan Mantri Kisan Samman Nidhi)", "Universal"),
      scheme("Pradhan Mantri Fasal Bima Yojana (PMFBY)",
             IF Truthy(crop) THEN "Applicable for " \o JsToString(crop)
             ELSE "Applicable for notified crops"),
      scheme("Kisan Credit Card (KCC)", "Universal"),
      scheme("Rythu Bharosa", "Universal for AP farmers"),
      scheme("YSR Free Crop Insurance", "Zero premium crop insurance"),
      scheme("YSR Yantra Seva", "For mechanization support"),
      scheme("YSR Sunna Vaddi Pathakam", "For timely loan repayment")>>
    \o (IF Truthy(farmerProfile.bplFamily)
        THEN <<scheme("National Food Security Mission (NFSM)",
                      "Priority assistance for BPL families")>>
        ELSE << >>)
    \o (IF farmerProfile.gender \in {Str("Female"), Str("female")}
        THEN <<scheme("Mahila Kisan Sashaktikaran Pariyojana (MKSP)",
                      "Women farmer empowerment")>>
        ELSE << >>)
    \o (IF Truthy(farmerProfile.irrigationMethod)
            /\ toUpperCase(farmerProfile.irrigationMethod.s) \in {"DRIP", "SPRINKLER"}
        THEN <<scheme("Pradhan Mantri Krishi Sinchayee Yojana (PMKSY)",
                      "Micro-irrigation support")>>
        ELSE << >>)

\* x?.toLowerCase() of a string, of null or of undefined.
lowerOrUndefined(x) == IF x.t = "string" THEN Str(toLowerCase(x.s)) ELSE Undefined

\* const { season = 'Kharif', region = 'Kuppam', ... } = req.body
orDefault(x, default) == IF x = Undefined THEN Str(default) ELSE x

\* parseFloat(landArea) || 0.6, in hundredths of a hectare.
farmerLandAreaOf(landArea) ==
    IF Truthy(parseFloat(landArea)) THEN 100 * parseFloat(landArea).v ELSE 60

\* The object whose JSON text, cut to 100 characters, is farmerProfileHash.
profileOf(body) ==
    Obj(<<[k |-> "bplFamily", v |-> body.bplFamily],
          [k |-> "gender", v |-> body.gender],
          [k |-> "education", v |-> body.education],
          [k |-> "irrigationMethod", v |-> body.irrigationMethod],
          [k |-> "waterSource", v |-> body.waterSource],
          [k |-> "farmingType", v |-> body.farmingType]>>)

substring(s, from, to) == SubSeq(s, from + 1, IF to < Len(s) THEN to ELSE Len(s))

cacheParamsOf(body, farmerLandArea, totalInvestment) ==
    Obj(<<[k |-> "crop", v |-> lowerOrUndefined(body.suggestedCrop)],
          [k |-> "season", v |-> lowerOrUndefined(orDefault(body.season, "Kharif"))],
          [k |-> "region", v |-> lowerOrUndefined(orDefault(body.region, "Kuppam"))],
          [k |-> "landArea", v |-> Num(farmerLandArea)],
          [k |-> "currentCrop", v |-> lowerOrUndefined(body.currentCrop)],
          [k |-> "currentYield", v |-> JsOr(body.currentYield, Null)],
          [k |-> "currentIncome", v |-> JsOr(body.currentIncome, Null)],
          [k |-> "investmentTotal", v |-> totalInvestment],
          [k |-> "farmerProfileHash",
           v |-> Str(substring(JSONstringify(profileOf(body), Undefined).s, 0, 100))]>>)

\* The calls a handler makes to the cache service.
cacheGetCall(key) == [to |-> "cache", fn |-> "get", key |-> key]

cacheSetCall(key, value, ttlHours) ==
    [to |-> "cache", fn |-> "set", key |-> key, value |-> value, ttlHours |-> ttlHours]

\* The catch block of the handler (details is there in development only).
insightsFailed(error) == Response(500, [success |-> FALSE, error |-> error.message])

\* x.key for a value x: a TypeError for null and undefined.
readable(x) == x.t \notin {"null", "undefined"}

marketPriceOf(marketData) ==
    JsOr(IF Truthy(marketData.marketPrice) THEN marketData.marketPrice.price ELSE Undefined,
         IF Truthy(marketData.mspPrice) THEN marketData.mspPrice.price ELSE Undefined)

\* aiProjections of the response.
aiProjectionsOf(projections, marketData) ==
    IF Truthy(projections)
    THEN [expectedYield |-> [kg |-> OptGet(projections, "expectedYieldKg"),
                             quintals |-> OptGet(projections, "expectedYieldQuintals")],
          marketPrice |-> JsOr(OptGet(projections, "marketPricePerQuintal"),
                               marketPriceOf(marketData)),
          estimatedRevenue |-> OptGet(projections, "estimatedRevenue"),
          estimatedProfit |-> OptGet(projections, "estimatedProfit")]
    ELSE [expectedYield |-> [kg |-> Null, quintals |-> Null,
                             note |-> "AI response not properly formatted"],
          marketPrice |-> JsOr(marketPriceOf(marketData), Null),
          estimatedRevenue |-> Null,
          estimatedProfit |-> Null]

notFormatted ==
    Obj(<<[k |-> "investmentChange", v |-> Str("AI response not properly formatted")],
          [k |-> "profitImprovement", v |-> Str("AI response not properly formatted")],
          [k |-> "riskLevel", v |-> Str("AI response not properly formatted")]>>)

\* The data of the response; metadata.generatedAt, the time of the answer,
\* is left out.
insightsData(body, investment, marketData, schemes, parsedInsights, aiInsights) ==
    [crop |-> body.suggestedCrop,
     season |-> orDefault(body.season, "Kharif"),
     region |-> orDefault(body.region, "Kuppam"),
     investmentRequirements |->
        [totalInvestment |-> investment.totalInvestment,
         totalInvestmentPerAcre |-> investment.totalInvestmentPerAcre,
         landArea |-> [hectares |-> investment.landAreaHectares,
                       acres |-> investment.landAreaAcres],
         stages |-> investment.stages],
     aiProjections |-> aiProjectionsOf(OptGet(parsedInsights, "projections"), marketData),
     marketContext |->
        [apmcPrice |-> marketData.marketPrice,
         mspPrice |-> marketData.mspPrice,
         priceSource |-> IF Truthy(marketData.marketPrice) THEN "APMC"
                         ELSE IF Truthy(marketData.mspPrice) THEN "MSP" ELSE "Estimated"],
     riskFactors |-> JsOr(OptGet(parsedInsights, "riskFactors"), Arr(<< >>)),
     successFactors |-> JsOr(OptGet(parsedInsights, "successFactors"), Arr(<< >>)),
     comparisonWithPreviousCrop |->
        [previousCrop |-> [name |-> body.currentCrop,
                           yield |-> JsOr(body.currentYield, Null),
                           income |-> JsOr(body.currentIncome, Null),
                           investment |-> investment.totalInvestment],
         suggestedCrop |->
            [name |-> body.suggestedCrop,
             estimatedYield |->
                JsOr(OptGet(OptGet(parsedInsights, "projections"), "expectedYieldKg"), Null),
             estimatedIncome |->
                JsOr(OptGet(OptGet(parsedInsights, "projections"), "estimatedRevenue"), Null),
             investment |-> investment.totalInvestment],
         comparison |-> JsOr(OptGet(parsedInsights, "comparison"), notFormatted)],
     recommendations |-> JsOr(OptGet(parsedInsights, "recommendations"), Arr(<< >>)),
     applicableSchemes |-> schemes,
     aiInsights |-> aiInsights,
     metadata |-> [aiProvider |-> "Together AI",
                   model |-> "meta-llama/Meta-Llama-3.1-70B-Instruct-Turbo",
                   region |-> orDefault(body.region, "Kuppam"),
                   season |-> orDefault(body.season, "Kharif")]]

\* The handler from "Build final response" on.
insightsRespond(body, investment, marketData, schemes, parsedInsights, aiInsights) ==
    IF ~readable(parsedInsights)
    THEN insightsFailed([t |-> "TypeError",
                         message |-> "Cannot read properties of " \o parsedInsights.t])
    ELSE Response(200, [success |-> TRUE,
                        data |-> insightsData(body, investment, marketData, schemes,
                                              parsedInsights, aiInsights)])

\* A handler that keeps nothing of a reply it cannot parse.
entryFromParsedOnly(text, parsed) ==
    insightsEntry(IF parsed = SyntaxError THEN Obj(<< >>) ELSE parsed, Str(text))

\* The content of the reply, cleaned and parsed: what is kept in the cache.
entryFrom(text, parsed) ==
    insightsEntry(IF parsed = SyntaxError THEN Obj(<<[k |-> "rawInsights", v |-> Str(text)]>>)
                  ELSE parsed,
                  Str(text))

entryOfContent(content) ==
    entryFrom(stripFences(trim(content)), JSONparse(stripFences(trim(content))))

\* The branch without cached insights, from the external call on: the call
\* fails, or its content has no length, or the entry is written with set,
\* whose promise settled as written says, and the response built from it.
insightsFetched(body, investment, marketData, schemes, key, reply, written, calls) ==
    IF reply.error THEN Served(insightsFailed(requestFailed), calls)
    ELSE IF reply.content.t # "string"
    THEN Served(insightsFailed([t |-> "TypeError",
                                message |-> "Cannot read properties of " \o reply.content.t]),
                calls)
    ELSE IF written.settled = "rejected"
    THEN Served(insightsFailed(written.value),
                Append(calls, cacheSetCall(key, entryOfContent(reply.content.s), Num(6))))
    ELSE Served(insightsRespond(body, investment, marketData, schemes,
                                Get(entryOfContent(reply.content.s), "parsedInsights"),
                                Get(entryOfContent(reply.content.s), "aiInsights")),
                Append(calls, cacheSetCall(key, entryOfContent(reply.content.s), Num(6))))

\* initializeTogetherAI() throws without TOGETHER_API_KEY.
notConfiguredError == [t |-> "Error", message |-> "TOGETHER_API_KEY not configured"]

\* A handler that does not look at what get returned: it always goes on to
\* the external call.
insightsAlwaysFetched(body, investment, marketData, schemes, key, cached, reply, written) ==
    IF ~Truthy(env.TOGETHER_API_KEY)
    THEN Served(insightsFailed(notConfiguredError), <<cacheGetCall(key)>>)
    ELSE insightsFetched(body, investment, marketData, schemes, key, reply, written,
                         <<cacheGetCall(key),
                           llmCall("Provide a detailed analysis for growing "
                                    \o body.suggestedCrop.s \o " in the "
                                    \o orDefault(body.season, "Kharif").s \o " season in "
                                    \o orDefault(body.region, "Kuppam").s \o " region")>>)

\* The handler from the answer of get on; cached is how the promise of get
\* settled.
insightsAfterGet(body, investment, marketData, schemes, key, cached, reply, written) ==
    IF cached.settled = "rejected"
    THEN Served(insightsFailed(cached.value), <<cacheGetCall(key)>>)
    ELSE IF Truthy(cached.value)
    THEN Served(insightsRespond(body, investment, marketData, schemes,
                                OptGet(cached.value, "parsedInsights"),
                                OptGet(cached.value, "aiInsights")),
                <<cacheGetCall(key)>>)
    ELSE IF ~Truthy(env.TOGETHER_API_KEY)
    THEN Served(insightsFailed(notConfiguredError), <<cacheGetCall(key)>>)
    ELSE insightsFetched(body, investment, marketData, schemes, key, reply, written,
                         <<cacheGetCall(key),
                           llmCall("Provide a detailed analysis for growing "
                                    \o body.suggestedCrop.s \o " in the "
                                    \o orDefault(body.season, "Kharif").s \o " season in "
                                    \o orDefault(body.region, "Kuppam").s \o " region")>>)

\* const farmerProfile = { bplFamily, gender, education, ... }
farmerProfileOf(body) ==
    [bplFamily |-> body.bplFamily, gender |-> body.gender,
     irrigationMethod |-> body.irrigationMethod]

\* The investment of a request that passed the validation.
investmentOfBody(body) ==
    calculateStageWiseInvestment(body.stages.items, body.suggestedCrop,
                                 farmerLandAreaOf(body.landArea))

\* The cache key of a request that passed the validation.
insightsKeyOf(body) ==
    generateCacheKey("next-crop-insights",
                     cacheParamsOf(body, investmentOfBody(body).landAreaHectares,
                                   investmentOfBody(body).totalInvestment))

\* The texts the handler calls a string method on, that are there and are
\* no strings: the call throws a TypeError.
notStrings(body) ==
    {x \in {body.suggestedCrop, body.currentCrop, body.season, body.region,
            body.irrigationMethod} : readable(x) /\ x.t # "string"}

\* router.post('/') with the cache operations given by how their promises
\* settle: cached for get(cacheKey), written for set(cacheKey, ..., 6). msp
\* is the MSP price the look-up of this crop gives (a TypeError when the
\* look-up throws), reply what the external call of this request will do.
insightsServed(body, msp, reply, cached, written) ==
    IF ~Truthy(body.landArea) \/ ~Truthy(body.currentCrop) \/ ~Truthy(body.stages)
        \/ ~Truthy(body.suggestedCrop)
    THEN Served(Response(400,
                    [success |-> FALSE,
                     error |->
                        "landArea, currentCrop, stages, and suggestedCrop are required fields"]),
                << >>)
    ELSE IF ~IsArray(body.stages) \/ Len(body.stages.items) # 9
    THEN Served(Response(400, [success |-> FALSE,
                               error |-> "stages must be an array of 9 crop stages"]),
                << >>)
    ELSE IF notStrings(body) # {}
    THEN Served(insightsFailed([t |-> "TypeError", message |-> "is not a function"]), << >>)
    ELSE IF msp.t = "TypeError"
    THEN Served(insightsFailed(msp), << >>)
    ELSE insightsAfterGet(body, investmentOfBody(body),
                          getMarketData(body.suggestedCrop.s, msp),
                          getApplicableGovernmentSchemes(farmerProfileOf(body),
                                                         body.suggestedCrop),
                          insightsKeyOf(body), cached, reply, written)

\* router.post('/') with the cache service as it is; storeFails says whether
\* the store answers this request's commands with an error.
postNextCropInsights(body, msp, reply, storeFails) ==
    insightsServed(body, msp, reply, get(insightsKeyOf(body), storeFails),
                   set(insightsKeyOf(body), entryOfContent(reply.content.s), storeFails))

----------------------------------------------------------------------------
(* backend/routers/lossAnalysis.js: POST /api/loss-analysis/analyze *)

\* s.split(sep) for a separator of one character.
RECURSIVE split(_, _)
split(s, sep) ==
    IF \E i \in 1..Len(s) : SubSeq(s, i, i) = sep
    THEN LET i == CHOOSE j \in 1..Len(s) :
                      /\ SubSeq(s, j, j) = sep
                      /\ \A k \in 1..(j - 1) : SubSeq(s, k, k) # sep
         IN  <<SubSeq(s, 1, i - 1)>> \o split(SubSeq(s, i + 1, Len(s)), sep)
    ELSE <<s>>

\* parseInt of a part of a date: its digits, NaN when it has others.
parseInt(s) == IF s # "" /\ IsDigitString(s) THEN Num(ParseDigits(s)) ELSE NaN

\* The season of a month and a year, both numbers.
seasonOf(month, year) ==
    IF month \in 6..7 THEN "Kharif " \o ToString(year)
    ELSE IF month \in 10..11 THEN "Rabi " \o ToString(year) \o "-" \o ToString(year + 1)
    ELSE IF month \in 3..4 THEN "Zaid " \o ToString(year)
    ELSE IF month \in 1..2 THEN "Rabi " \o ToString(year - 1) \o "-" \o ToString(year)
    ELSE IF month \in 8..9 THEN "Kharif " \o ToString(year)
    ELSE ToString(year)

\* inferSeasonFromDate: a date that is no string makes split throw, which
\* the function catches.
inferSeasonFromDate(dateString) ==
    IF dateString.t # "string" THEN "Unknown Season"
    ELSE IF Len(split(dateString.s, "-")) # 3 THEN "Unknown Season"
    ELSE IF IsNum(parseInt(split(dateString.s, "-")[2]))
            /\ IsNum(parseInt(split(dateString.s, "-")[3]))
    THEN seasonOf(parseInt(split(dateString.s, "-")[2]).v,
                  parseInt(split(dateString.s, "-")[3]).v)
    ELSE JsToString(parseInt(split(dateString.s, "-")[3]))

\* Object.values(obj).reduce((sum, val) => sum + (typeof val === 'number' ? val : 0), 0)
RECURSIVE sumNumbers(_)
sumNumbers(props) ==
    IF props = << >> THEN 0
    ELSE (IF IsNum(Head(props).v) THEN Head(props).v.v ELSE 0) + sumNumbers(Tail(props))

sumOfValues(obj) == IF IsObj(obj) THEN sumNumbers(obj.props) ELSE 0

\* expectedYield || actualYield * 1.2
expectedYieldOr(expected, actualYield) ==
    IF Truthy(expected) THEN expected ELSE Num((actualYield.v * 12) \div 10)

\* The handler's summary; profitMargin is the string toFixed(2) makes, in
\* hundredths here, or the number 0.
summaryOf(totalCost, totalIncome, actualYield, expected) ==
    [totalCost |-> totalCost,
     totalIncome |-> totalIncome,
     netProfit |-> totalIncome - totalCost,
     profitMargin |-> IF totalIncome > 0
                      THEN Str(hundredthsToString(toFixed2(Num(totalIncome - totalCost),
                                                           Num(totalIncome), 2)))
                      ELSE Num(0),
     actualYield |-> actualYield,
     expectedYield |-> expectedYieldOr(expected, actualYield),
     yieldGap |-> JsSub(expectedYieldOr(expected, actualYield), actualYield)]

\* let inferredSeason = season; if (!season && cropDetails?.sowingDate) ...
inferredSeasonOf(body) ==
    IF ~Truthy(body.season) /\ Truthy(OptGet(body.cropDetails, "sowingDate"))
    THEN Str(inferSeasonFromDate(OptGet(body.cropDetails, "sowingDate")))
    ELSE body.season

\* cropName || cropDetails?.variety || 'Unknown Crop'
finalCropNameOf(body) ==
    JsOr(JsOr(body.cropName, OptGet(body.cropDetails, "variety")), Str("Unknown Crop"))

\* The catch block of the handler.
lossAnalysisFailed(error) ==
    Response(500, [success |-> FALSE, error |-> "Failed to generate loss analysis",
                   details |-> error.message])

\* The handler from the external call on; data.timestamp, the time of the
\* answer, is left out.
lossAnalysisRespond(body, reply) ==
    IF reply.error THEN lossAnalysisFailed(requestFailed)
    ELSE Response(200,
            [success |-> TRUE,
             data |-> [cropName |-> finalCropNameOf(body),
                       season |-> inferredSeasonOf(body),
                       summary |-> summaryOf(sumOfValues(body.costs), sumOfValues(body.income),
                                             body.actualYield, body.expectedYield),
                       analysis |-> reply.content]])

\* The handler with the validation after the external call.
postLossAnalysisLate(body, reply) ==
    Served(IF ~Truthy(body.actualYield) \/ ~Truthy(body.costs) \/ ~Truthy(body.income)
           THEN Response(400, [error |-> "Missing required fields",
                               required |-> <<"actualYield", "costs", "income">>])
           ELSE lossAnalysisRespond(body, reply),
           <<llmCall("Analyze the following crop loss")>>)

\* router.post('/analyze') of the loss analysis.
postLossAnalysis(body, reply) ==
    IF ~Truthy(body.actualYield) \/ ~Truthy(body.costs) \/ ~Truthy(body.income)
    THEN Served(Response(400, [error |-> "Missing required fields",
                               required |-> <<"actualYield", "costs", "income">>]),
                << >>)
    ELSE Served(lossAnalysisRespond(body, reply),
                <<llmCall("Analyze the following crop loss - Crop/Variety: "
                            \o JsToString(finalCropNameOf(body)) \o " - Season: "
                            \o JsToString(JsOr(inferredSeasonOf(body),
                                               Str("Unknown Season"))))>>)

----------------------------------------------------------------------------
(* backend/routers/naturalFarming.js: POST /api/natural-farming/recommendations *)

naturalFarmingFailed(error) ==
    Response(500, [success |-> FALSE,
                   error |-> "Failed to generate natural farming recommendations",
                   details |-> error.message])

\* The handler from the external call on. parseNaturalFarmingResponse
\* catches what it throws; the benefits and practices it reads out of the
\* text, and data.timestamp, are left out.
naturalFarmingRespond(body, reply) ==
    IF reply.error THEN naturalFarmingFailed(requestFailed)
    ELSE Response(200,
            [success |-> TRUE,
             data |-> [location |-> [village |-> OptGet(body.location, "village"),
                                     mandal |-> OptGet(body.location, "mandal"),
                                     region |-> "Andhra Pradesh"],
                       landArea |-> body.landArea,
                       currentCrop |-> body.currentCrop,
                       rawAnalysis |-> reply.content]])

\* router.post('/recommendations')
postNaturalFarming(body, reply) ==
    IF ~Truthy(body.location) \/ ~Truthy(OptGet(body.location, "mandal"))
    THEN Served(Response(400, [error |-> "Missing required fields",
                               required |-> <<"location (with mandal)">>]),
                << >>)
    ELSE Served(naturalFarmingRespond(body, reply),
                <<llmCall("Natural farming recommendations - Location: "
                            \o JsToString(OptGet(body.location, "mandal"))
                            \o ", Andhra Pradesh - Current Crop: "
                            \o JsToString(JsOr(body.currentCrop, Str("mixed crops"))))>>)

----------------------------------------------------------------------------
(* The HTTP endpoints: one request to a started or starting server *)

\* Nine stages, the second of which has one category of the given cost.
nineStages(cost) ==
    Arr([i \in 1..9 |->
            [stageName |-> stageNames[i],
             categories |-> IF i = 2
                            THEN Arr(<<[category |-> "machinery_cost",
                                        data |-> [t |-> "object", totalCost |-> Num(cost),
                                                  days |-> Num(2)]]>>)
                            ELSE Arr(<< >>)]])

\* A body of POST /api/next-crop-insights that passes the validation.
InsightsBody ==
    [landArea |-> Num(1), currentCrop |-> Str("Paddy"), stages |-> nineStages(12000),
     suggestedCrop |-> Str("Tomato"), season |-> Undefined, region |-> Undefined,
     currentYield |-> Undefined, currentIncome |-> Undefined, bplFamily |-> Undefined,
     gender |-> Undefined, education |-> Undefined, irrigationMethod |-> Undefined,
     waterSource |-> Undefined, farmingType |-> Undefined]

\* Bodies that pass the validation.
ValidInsightsBodies ==
    {InsightsBody,
     [InsightsBody EXCEPT !.suggestedCrop = Str("Mango"), !.season = Str("Rabi"),
                          !.currentYield = Num(3000), !.currentIncome = Num(60000)],
     [InsightsBody EXCEPT !.bplFamily = True, !.gender = Str("female"),
                          !.irrigationMethod = Str("Drip"), !.landArea = Num(2)]}

\* Bodies with a required field missing or empty, and with stages that are
\* not nine.
InvalidInsightsBodies ==
    {[InsightsBody EXCEPT !.landArea = Undefined],
     [InsightsBody EXCEPT !.landArea = Num(0)],
     [InsightsBody EXCEPT !.currentCrop = Undefined],
     [InsightsBody EXCEPT !.currentCrop = Str("")],
     [InsightsBody EXCEPT !.stages = Undefined],
     [InsightsBody EXCEPT !.suggestedCrop = Undefined],
     [InsightsBody EXCEPT !.suggestedCrop = Null],
     [InsightsBody EXCEPT !.stages = Str("nine"), !.suggestedCrop = Undefined],
     [InsightsBody EXCEPT !.stages = Str("nine stages")],
     [InsightsBody EXCEPT !.stages = Arr(<< >>)],
     [InsightsBody EXCEPT !.stages = Arr(SubSeq(nineStages(12000).items, 1, 8))]}

\* Bodies that pass the validation and make a later statement throw.
FailingInsightsBodies ==
    {[InsightsBody EXCEPT !.season = Num(2025)],
     [InsightsBody EXCEPT !.suggestedCrop = Num(7)]}

\* What the external call of the insights endpoint does.
InsightReplies ==
    {[error |-> TRUE, content |-> Null], [error |-> FALSE, content |-> Null]}
    \cup {[error |-> FALSE, content |-> Str(x)] : x \in InsightTexts}

\* What the look-up of the MSP price gives.
MspOutcomes ==
    {Null,
     [t |-> "object", price |-> Num(2300), trend |-> "Increasing", category |-> "Cereals"],
     [t |-> "TypeError", message |-> "mspData.find is not a function"]}

InsightsRequests ==
    {[fn |-> "postNextCropInsights", body |-> InsightsBody, msp |-> Null, reply |-> r,
      storeFails |-> f] : r \in InsightReplies, f \in BOOLEAN}
    \cup {[fn |-> "postNextCropInsights", body |-> b, msp |-> Null, reply |-> r,
           storeFails |-> f] :
            b \in ValidInsightsBodies,
            r \in {[error |-> TRUE, content |-> Null],
                   [error |-> FALSE, content |-> Str(JSONstringify(FullInsights, Undefined).s)]},
            f \in BOOLEAN}
    \cup {[fn |-> "postNextCropInsights", body |-> InsightsBody, msp |-> m, reply |-> r,
           storeFails |-> f] :
            m \in MspOutcomes, r \in {[error |-> FALSE, content |-> Str(notJson)]},
            f \in BOOLEAN}
    \cup {[fn |-> "postNextCropInsights", body |-> b, msp |-> Null,
           reply |-> [error |-> FALSE, content |-> Str(notJson)], storeFails |-> FALSE] :
            b \in InvalidInsightsBodies \cup FailingInsightsBodies}

\* What the external call of llmService.js does.
ServiceReplies ==
    {[error |-> TRUE, content |-> Null], [error |-> FALSE, content |-> Null],
     [error |-> FALSE, content |-> Str("Tomato is ideal for red loamy soils.")],
     [error |-> FALSE, content |-> Str("Not recommended: avoid in Kharif.")],
     [error |-> FALSE, content |-> Str("Yields vary with rainfall.")]}

\* The bodies of POST /api/profitable-crops/analyze.
AnalyzeRequests ==
    {[fn |-> "postAnalyze", body |-> [cropName |-> c, farmerData |-> f], reply |-> r] :
        c \in {Undefined, Null, Str(""), Num(7), Str("TOMATO"), Str("Ragi"), Str("Mango")},
        f \in {Undefined,
               [t |-> "object", status |-> Str("COMPLETED"), stages |-> stagesCosting(73000),
                cropYield |-> Num(6000), incomeFromYieldSale |-> Undefined]},
        r \in ServiceReplies}

\* The bodies of POST /api/loss-analysis/analyze.
LossCosts == Obj(<<[k |-> "labour", v |-> Num(30000)], [k |-> "seeds", v |-> Num(5000)],
                   [k |-> "notes", v |-> Str("own tractor")]>>)

LossIncome == Obj(<<[k |-> "yieldSale", v |-> Num(28000)]>>)

LossBody ==
    [cropName |-> Str("Tomato"), season |-> Undefined, actualYield |-> Num(50),
     expectedYield |-> Undefined, costs |-> LossCosts, income |-> LossIncome,
     cropDetails |-> Undefined]

LossBodies ==
    {LossBody,
     [LossBody EXCEPT !.actualYield = Undefined],
     [LossBody EXCEPT !.actualYield = Num(0)],
     [LossBody EXCEPT !.costs = Undefined],
     [LossBody EXCEPT !.income = Undefined],
     [LossBody EXCEPT !.costs = Null, !.income = Null],
     [LossBody EXCEPT !.actualYield = Undefined, !.costs = Undefined, !.income = Undefined],
     [LossBody EXCEPT !.income = Obj(<< >>), !.expectedYield = Num(70)],
     [LossBody EXCEPT !.season = Str("Rabi 2024-25"), !.cropName = Undefined],
     [LossBody EXCEPT !.cropName = Undefined,
                      !.cropDetails = Obj(<<[k |-> "sowingDate", v |-> Str("15-06-2024")],
                                            [k |-> "variety", v |-> Str("Arka Rakshak")]>>)],
     [LossBody EXCEPT !.cropDetails = Obj(<<[k |-> "sowingDate", v |-> Str("June 2024")]>>)],
     [LossBody EXCEPT !.cropDetails = Obj(<<[k |-> "sowingDate", v |-> Str("05-01-2025")]>>)]}

LossRequests ==
    {[fn |-> "postLossAnalysis", body |-> b, reply |-> r] :
        b \in LossBodies,
        r \in {[error |-> TRUE, content |-> Null], [error |-> FALSE, content |-> Null],
               [error |-> FALSE, content |-> Str("Yield fell short of the potential.")]}}

\* The bodies of POST /api/natural-farming/recommendations.
NaturalFarmingBodies ==
    {[location |-> l, landArea |-> Num(1), currentCrop |-> c] :
        l \in {Undefined, Null, Obj(<< >>),
               Obj(<<[k |-> "village", v |-> Str("Kuppam")]>>),
               Obj(<<[k |-> "mandal", v |-> Str("")]>>),
               Obj(<<[k |-> "village", v |-> Str("Kuppam")],
                     [k |-> "mandal", v |-> Str("Kuppam")]>>)},
        c \in {Undefined, Str("Tomato")}}

NaturalFarmingRequests ==
    {[fn |-> "postNaturalFarming", body |-> b, reply |-> r] :
        b \in NaturalFarmingBodies,
        r \in {[error |-> TRUE, content |-> Null], [error |-> FALSE, content |-> Null],
               [error |-> FALSE, content |-> Str("BENEFITS: 1. Lower costs")]}}

\* The calls of the two functions llmService.js exports to other modules.
ServiceCrops == {"TOMATO", "Ragi", "Mango"}

\* The longest list of crops handed to generateBulkInsights.
MaxBulkCrops == 2

ServiceRequests ==
    {[fn |-> "generateLLMInsights", cropName |-> c,
      recommendation |-> generateCropRecommendation(c, Null, "0.6"),
      farmerData |-> Null, reply |-> r] :
        c \in ServiceCrops, r \in ServiceReplies}
    \cup {[fn |-> "generateBulkInsights", crops |-> l, reply |-> r] :
            l \in {[i \in 1..Len(q) |-> generateCropRecommendation(q[i], Null, "0.6")] :
                        q \in SeqsUpTo(ServiceCrops, MaxBulkCrops)},
            r \in ServiceReplies}

ApiRequests ==
    InsightsRequests \cup AnalyzeRequests \cup LossRequests \cup NaturalFarmingRequests
        \cup ServiceRequests

\* What the store can hold under the key of InsightsBody when the process
\* starts: an entry of an earlier process, a text cut short, a number.
StoredTexts ==
    {JSONstringify(insightsEntry(FullInsights,
                                 Str(JSONstringify(FullInsights, Undefined).s)),
                   Undefined).s,
     "{\"parsedInsights\":",
     "5"}

InsightsKey == insightsKeyOf(InsightsBody)

\* The environments a request is tried in: the variables its endpoint reads
\* are set or not, the others are not set.
EnvsOf(fn) ==
    {[CACHE_ENABLED |-> e, CACHE_TTL_HOURS |-> Undefined,
      TOGETHER_API_KEY |-> t, OPENAI_API_KEY |-> o] :
        e \in IF fn = "postNextCropInsights" THEN {Undefined, Str("false")} ELSE {Undefined},
        t \in {Undefined, Str("tk")},
        o \in IF fn \in {"postAnalyze", "generateLLMInsights", "generateBulkInsights"}
              THEN {Undefined, Str("ok")} ELSE {Undefined}}

\* The stores a request is tried with.
StoresOf(fn) ==
    {{}} \cup (IF fn = "postNextCropInsights"
               THEN {{[key |-> InsightsKey, text |-> x, ttl |-> 21600]} : x \in StoredTexts}
               ELSE {})

\* One request, in a process started with some environment.
InitApi ==
    /\ op = "idle"
    /\ input \in ApiRequests
    /\ output = Null
    /\ env \in EnvsOf(input.fn)
    /\ redisClient = Null
    /\ cacheEnabled = TRUE
    /\ store \in StoresOf(input.fn)
    /\ llmClient = Null
    /\ llmProvider = Null

\* The callback of app.listen: initializeRedis(), whose constructor may
\* throw.
ServerStart ==
    \E constructorThrows \in BOOLEAN :
        /\ op = "idle"
        /\ op' = "listening"
        /\ cacheEnabled' = (env.CACHE_ENABLED # Str("false"))
        /\ redisClient' = IF ~cacheEnabled' \/ constructorThrows THEN Null ELSE RedisClient
        /\ UNCHANGED <<input, output, env, store, llmClient, llmProvider>>

\* The states in which the server takes a request.
ready == op \in {"idle", "listening", "initializeLLMClient"}

\* initializeLLMClient() of llmService.js, called on its own before a request
\* that uses the service.
ServiceInitializeLLMClient ==
    /\ op \in {"idle", "listening"}
    /\ input.fn \in {"postAnalyze", "generateLLMInsights", "generateBulkInsights"}
    /\ op' = "initializeLLMClient"
    /\ llmClient' = serviceClientAfterInit
    /\ llmProvider' = serviceProviderAfterInit
    /\ output' = serviceClientAfterInit
    /\ UNCHANGED <<input, env, redisClient, cacheEnabled, store>>

PostAnalyze ==
    /\ ready
    /\ input.fn = "postAnalyze"
    /\ op' = input.fn
    /\ output' = postAnalyze(input.body, input.reply)
    /\ IF output'.calls # << >>
       THEN llmClient' = serviceClientAfterInit /\ llmProvider' = serviceProviderAfterInit
       ELSE UNCHANGED <<llmClient, llmProvider>>
    /\ UNCHANGED <<input, env, redisClient, cacheEnabled, store>>

\* The request is served; the entry that set wrote is in the store
\* afterwards.
PostNextCropInsights ==
    /\ ready
    /\ input.fn = "postNextCropInsights"
    /\ op' = input.fn
    /\ output' = postNextCropInsights(input.body, input.msp, input.reply, input.storeFails)
    /\ store' = IF output'.calls # << >>
                    /\ output'.calls[Len(output'.calls)].to = "cache"
                    /\ output'.calls[Len(output'.calls)].fn = "set"
                    /\ ~unavailable /\ ~input.storeFails
                THEN (store \ entriesOf(insightsKeyOf(input.body)))
                        \cup {[key |-> insightsKeyOf(input.body),
                               text |-> JSONstringify(entryOfContent(input.reply.content.s),
                                                      Undefined).s,
                               ttl |-> ttlSecondsOf(Num(6))]}
                ELSE store
    /\ UNCHANGED <<input, env, redisClient, cacheEnabled, llmClient, llmProvider>>

PostLossAnalysis ==
    /\ ready
    /\ input.fn = "postLossAnalysis"
    /\ op' = input.fn
    /\ output' = postLossAnalysis(input.body, input.reply)
    /\ UNCHANGED <<input, env, redisClient, cacheEnabled, store, llmClient, llmProvider>>

PostNaturalFarming ==
    /\ ready
    /\ input.fn = "postNaturalFarming"
    /\ op' = input.fn
    /\ output' = postNaturalFarming(input.body, input.reply)
    /\ UNCHANGED <<input, env, redisClient, cacheEnabled, store, llmClient, llmProvider>>

CallGenerateLLMInsights ==
    /\ ready
    /\ input.fn = "generateLLMInsights"
    /\ op' = input.fn
    /\ llmClient' = serviceClientAfterInit
    /\ llmProvider' = serviceProviderAfterInit
    /\ output' = generateLLMInsights(serviceClientAfterInit, serviceProviderAfterInit,
                                     input.cropName, input.recommendation,
                                     input.farmerData, input.reply)
    /\ UNCHANGED <<input, env, redisClient, cacheEnabled, store>>

CallGenerateBulkInsights ==
    /\ ready
    /\ input.fn = "generateBulkInsights"
    /\ op' = input.fn
    /\ llmClient' = serviceClientAfterInit
    /\ llmProvider' = serviceProviderAfterInit
    /\ output' = generateBulkInsights(serviceClientAfterInit, serviceProviderAfterInit,
                                      input.crops, input.reply)
    /\ UNCHANGED <<input, env, redisClient, cacheEnabled, store>>

NextApi ==
    \/ ServerStart
    \/ ServiceInitializeLLMClient
    \/ PostAnalyze
    \/ PostNextCropInsights
    \/ PostLossAnalysis
    \/ PostNaturalFarming
    \/ CallGenerateLLMInsights
    \/ CallGenerateBulkInsights

SpecApi == InitApi /\ [][NextApi]_vars

----------------------------------------------------------------------------
(* POST /api/next-crop-insights: two requests with the same body, followed *)
(* from one await to the next                                              *)

Requests == 1..2

\* The body both requests carry: one that is served, one that fails the
\* validation, and one whose crop is no string.
PairBodies ==
    {InsightsBody,
     [InsightsBody EXCEPT !.landArea = Undefined],
     [InsightsBody EXCEPT !.suggestedCrop = Num(5)]}

\* What the external call of a request does: it throws, it returns the
\* object asked for, or a sentence.
PairReplies ==
    {[error |-> TRUE, content |-> Null],
     [error |-> FALSE, content |-> Str(JSONstringify(FullInsights, Undefined).s)],
     [error |-> FALSE, content |-> Str(notJson)]}

\* What a handler holds: how the promise of get(cacheKey) settled, how the
\* promise of set(cacheKey, ...) settled (Pending before), and the responses
\* it has sent with res.json.
insightsRun(cached, written, responses) ==
    [cached |-> cached, written |-> written, responses |-> responses]

\* The request of handler i.
requestOf(i) == [body |-> input.body, msp |-> Null, reply |-> input.replies[i]]

\* The handler as far as it can run with the promises settled so far: the
\* calls it has made and the response it sends when it needs no other.
servedSoFar(request, run) ==
    insightsServed(request.body, request.msp, request.reply, run.cached, run.written)

\* Handler i sends the response and returns.
respond(i, run, response) ==
    /\ op' = [op EXCEPT ![i] = "responded"]
    /\ output' = [output EXCEPT ![i] = insightsRun(run.cached, run.written,
                                                   Append(run.responses, response))]

\* Handler i stops at its next await.
await(i, run, call) ==
    /\ op' = [op EXCEPT ![i] = call]
    /\ output' = [output EXCEPT ![i] = run]

\* The server is listening, the cache is cold; initializeRedis() gave a
\* client or, when the constructor threw, none.
InitPair ==
    /\ op = [i \in Requests |-> "waiting"]
    /\ input \in {[body |-> b, replies |-> <<r1, r2>>] :
                    b \in PairBodies, r1 \in PairReplies, r2 \in PairReplies}
    /\ output = [i \in Requests |-> insightsRun(Pending, Pending, << >>)]
    /\ env \in {[CACHE_ENABLED |-> Undefined, CACHE_TTL_HOURS |-> Undefined,
                 TOGETHER_API_KEY |-> t, OPENAI_API_KEY |-> Undefined] :
                    t \in {Undefined, Str("tk")}}
    /\ redisClient \in {Null, RedisClient}
    /\ cacheEnabled = TRUE
    /\ store = {}
    /\ llmClient = Null
    /\ llmProvider = Null

\* Request i arrives: the validation and the computations before the cache
\* look-up; the handler answers at once or awaits get(cacheKey).
Arrive(i) ==
    /\ op[i] = "waiting"
    /\ IF servedSoFar(requestOf(i), output[i]).calls = << >>
       THEN respond(i, output[i], servedSoFar(requestOf(i), output[i]).response)
       ELSE await(i, output[i], "get")
    /\ UNCHANGED <<input, env, redisClient, cacheEnabled, store, llmClient, llmProvider>>

\* A look-up that knows the requests in flight: while another handler with
\* the same key awaits its external call or its write, the look-up settles
\* with the entry that handler is about to write.
afterGetInFlight(runs, i, cached) ==
    IF \E j \in Requests : j # i /\ op[j] \in {"llm", "set"} /\ ~input.replies[j].error
    THEN insightsRun(
            Fulfilled(entryOfContent(
                input.replies[CHOOSE j \in Requests : j # i].content.s)),
            runs[i].written, runs[i].responses)
    ELSE insightsRun(cached, runs[i].written, runs[i].responses)

\* The handler after get(cacheKey) has settled as cached.
afterGet(runs, i, cached) == insightsRun(cached, runs[i].written, runs[i].responses)

\* get(cacheKey) settles with what the store holds now: the handler answers
\* from the cache, or fails, or awaits the external call.
GetReturns(i) ==
    \E storeFails \in BOOLEAN :
        /\ op[i] = "get"
        /\ LET run == afterGet(output, i, get(insightsKeyOf(input.body), storeFails))
           IN  IF Len(servedSoFar(requestOf(i), run).calls) = 1
               THEN respond(i, run, servedSoFar(requestOf(i), run).response)
               ELSE await(i, run, "llm")
        /\ UNCHANGED <<input, env, redisClient, cacheEnabled, store, llmClient,
                       llmProvider>>

\* The external call returns or throws: the handler fails, or cleans and
\* parses the content and awaits set(cacheKey, ..., 6).
LlmReturns(i) ==
    /\ op[i] = "llm"
    /\ IF Len(servedSoFar(requestOf(i), output[i]).calls) = 2
       THEN respond(i, output[i], servedSoFar(requestOf(i), output[i]).response)
       ELSE await(i, output[i], "set")
    /\ UNCHANGED <<input, env, redisClient, cacheEnabled, store, llmClient, llmProvider>>

\* The handler after set(cacheKey, ...) has settled as written.
afterSet(runs, i, written) == insightsRun(runs[i].cached, written, runs[i].responses)

\* set(cacheKey, ..., 6) settles, the entry is in the store unless the cache
\* is unavailable or the store failed, and the handler answers.
SetReturns(i) ==
    \E storeFails \in BOOLEAN :
        /\ op[i] = "set"
        /\ LET run == afterSet(output, i,
                        set(insightsKeyOf(input.body),
                            entryOfContent(input.replies[i].content.s), storeFails))
           IN  respond(i, run, servedSoFar(requestOf(i), run).response)
        /\ store' = IF ~unavailable /\ ~storeFails
                    THEN (store \ entriesOf(insightsKeyOf(input.body)))
                            \cup {[key |-> insightsKeyOf(input.body),
                                   text |-> JSONstringify(
                                               entryOfContent(input.replies[i].content.s),
                                               Undefined).s,
                                   ttl |-> ttlSecondsOf(Num(6))]}
                    ELSE store
        /\ UNCHANGED <<input, env, redisClient, cacheEnabled, llmClient, llmProvider>>

NextPair ==
    \/ \E i \in Requests : Arrive(i)
    \/ \E i \in Requests : GetReturns(i)
    \/ \E i \in Requests : LlmReturns(i)
    \/ \E i \in Requests : SetReturns(i)
    \/ Expire

SpecPair == InitPair /\ [][NextPair]_vars

----------------------------------------------------------------------------
(* backend/routers/profitableCrops.js: POST /api/profitable-crops, whose *)
(* requests for operational details are in flight together               *)

\* getAllAPMCCrops(): the entries by falling arrivals; the sort is stable.
RECURSIVE byArrivals(_)
byArrivals(entries) ==
    IF entries = << >> THEN << >>
    ELSE LET most == CHOOSE i \in 1..Len(entries) :
                        /\ \A j \in 1..Len(entries) :
                                entries[j].totalArrivals <= entries[i].totalArrivals
                        /\ \A j \in 1..(i - 1) :
                                entries[j].totalArrivals < entries[i].totalArrivals
         IN  <<entries[most]>>
                \o byArrivals([k \in 1..(Len(entries) - 1) |->
                                    IF k < most THEN entries[k] ELSE entries[k + 1]])

getAllAPMCCrops == byArrivals(apmcData)

\* The element of formattedRecommendations for a recommendation and its
\* operational details (marketInfo without the number of recent trades).
formattedRecommendation(rec, operationalDetails) ==
    [crop |-> rec.crop,
     expectedIncome |-> "₹" \o toLocaleString(rec.expectedIncome),
     demand |-> rec.demand,
     successRate |-> ToString(rec.successRate) \o "%",
     details |-> operationalDetails,
     marketInfo |-> IF Truthy(rec.marketData)
                    THEN [t |-> "object",
                          totalArrivals |-> rec.marketData.totalArrivals,
                          avgPrice |-> "₹" \o ToString(rec.marketData.avgModalPrice)
                                        \o "/quintal",
                          volatility |-> rec.marketData.priceVolatility]
                    ELSE Null]

\* The promise of the callback of recommendations.map for one
\* recommendation, given what its external call does.
detailsCallback(client, rec, reply) ==
    IF generateCropOperationalDetails(client, rec.crop, rec, reply).settled = "fulfilled"
    THEN Fulfilled(formattedRecommendation(rec,
            generateCropOperationalDetails(client, rec.crop, rec, reply).value))
    ELSE generateCropOperationalDetails(client, rec.crop, rec, reply)

\* An array filled in the order of arrival: the value goes to the first
\* index that has none yet.
settleInArrivalOrder(results, i, promise) ==
    [results EXCEPT ![CHOOSE k \in 1..Len(results) :
                        /\ results[k] = Pending
                        /\ \A j \in 1..(k - 1) : results[j] # Pending] = promise]

\* Promise.all keeps the value of the promise at index i at index i.
settleAt(results, i, promise) == [results EXCEPT ![i] = promise]

\* What the handler holds: the recommendations of getTopProfitableCrops, the
\* promises given to Promise.all, the order in which they settled, and the
\* responses sent.
cropsRun(ranked, results, order, responses) ==
    [ranked |-> ranked, results |-> results, order |-> order, responses |-> responses]

\* The handler once Promise.all has settled: the response, or the catch
\* block when a promise was rejected.
cropsRespond(run) ==
    IF \E i \in 1..Len(run.results) : run.results[i].settled = "rejected"
    THEN Response(500, [success |-> FALSE,
                        error |-> (CHOOSE p \in
                            {run.results[i] : i \in 1..Len(run.results)} :
                                p.settled = "rejected").value.message])
    ELSE Response(200, [success |-> TRUE, region |-> input.region,
                        totalCropsAnalyzed |-> Len(getAllAPMCCrops),
                        recommendations |->
                            [i \in 1..Len(run.results) |-> run.results[i].value]])

\* The most recommendations a request asks for.
MaxTopN == 3

\* What the external call for one crop does.
CropReplies ==
    {[error |-> TRUE, content |-> Null],
     [error |-> FALSE, content |-> Str(JSONstringify(Obj(<< >>), Undefined).s)],
     [error |-> FALSE, content |-> Str("I cannot help with that.")]}

\* A request without farmer data, and what the external call of each of its
\* crops will do.
CropsRequests ==
    {[fn |-> "postProfitableCrops", farmerData |-> Null, region |-> "KUPPAM/PALAMANER",
      topN |-> Num(n), replies |-> r] : n \in 1..MaxTopN, r \in [1..MaxTopN -> CropReplies]}

InitCrops ==
    /\ op = "waiting"
    /\ input \in {request \in CropsRequests :
                    \A i \in (request.topN.v + 1)..MaxTopN :
                        request.replies[i] = [error |-> TRUE, content |-> Null]}
    /\ output = Null
    /\ env \in {[CACHE_ENABLED |-> Undefined, CACHE_TTL_HOURS |-> Undefined,
                 TOGETHER_API_KEY |-> t, OPENAI_API_KEY |-> Undefined] :
                    t \in {Undefined, Str("tk")}}
    /\ redisClient = Null
    /\ cacheEnabled = TRUE
    /\ store = {}
    /\ llmClient = Null
    /\ llmProvider = Null

\* The request arrives: the ranking, then one callback per recommendation,
\* each run up to its await; the first of them initializes the client.
CropsArrive ==
    /\ op = "waiting"
    /\ op' = "awaiting-all"
    /\ \E ranked \in getTopProfitableCrops(
                        [i \in 1..Len(getAllAPMCCrops) |-> getAllAPMCCrops[i].crop],
                        input.farmerData, input.topN) :
            output' = cropsRun(ranked, [i \in 1..Len(ranked) |-> Pending], << >>, << >>)
    /\ llmClient' = clientAfterInit
    /\ llmProvider' = providerAfterInit
    /\ UNCHANGED <<input, env, redisClient, cacheEnabled, store>>

\* The promise of one callback settles: its external call has returned or
\* thrown (or there was none) and the callback has run to its end.
CropSettles(i) ==
    /\ op = "awaiting-all"
    /\ i \in 1..Len(output.ranked)
    /\ i \notin {output.order[k] : k \in 1..Len(output.order)}
    /\ output' = cropsRun(output.ranked,
                          settleAt(output.results, i,
                                   detailsCallback(llmClient, output.ranked[i],
                                                   input.replies[i])),
                          Append(output.order, i), output.responses)
    /\ UNCHANGED <<op, input, env, redisClient, cacheEnabled, store, llmClient,
                   llmProvider>>

\* Promise.all settles, when all its promises are fulfilled or one is
\* rejected, and the handler answers.
CropsRespond ==
    /\ op = "awaiting-all"
    /\ \/ \A i \in 1..Len(output.results) : output.results[i].settled = "fulfilled"
       \/ \E i \in 1..Len(output.results) : output.results[i].settled = "rejected"
    /\ op' = "responded"
    /\ output' = cropsRun(output.ranked, output.results, output.order,
                          Append(output.responses, cropsRespond(output)))
    /\ UNCHANGED <<input, env, redisClient, cacheEnabled, store, llmClient, llmProvider>>

NextCrops ==
    \/ CropsArrive
    \/ \E i \in 1..MaxTopN : CropSettles(i)
    \/ CropsRespond

SpecCrops == InitCrops /\ [][NextCrops]_vars

----------------------------------------------------------------------------
(* The handlers of the routers, each followed from the arrival of a request *)
(* to its response                                                          *)

\* What the handler of a request with a single external call does in all.
handled(request) ==
    CASE request.fn = "postAnalyze" -> postAnalyze(request.body, request.reply)
      [] request.fn = "postLossAnalysis" -> postLossAnalysis(request.body, request.reply)
      [] request.fn = "postNaturalFarming" -> postNaturalFarming(request.body, request.reply)

\* What the handler holds: whether it is at its await, and the responses
\* sent.
handlerRun(position, responses) == [position |-> position, responses |-> responses]

\* A validation that answers 400 without returning: the handler goes on to
\* its external call.
afterArrivalNoReturn(served) ==
    handlerRun("awaiting", IF served.calls = << >> THEN <<served.response>> ELSE << >>)

\* The handler up to its await: a request that fails the validation, or
\* needs no external call, is answered and the handler returns.
afterArrival(served) ==
    IF served.calls = << >> THEN handlerRun("responded", <<served.response>>)
    ELSE handlerRun("awaiting", << >>)

InitHandler ==
    /\ op = "waiting"
    /\ input \in AnalyzeRequests \cup LossRequests \cup NaturalFarmingRequests
    /\ output = Null
    /\ env \in EnvsOf(input.fn)
    /\ redisClient = Null
    /\ cacheEnabled = TRUE
    /\ store = {}
    /\ llmClient = Null
    /\ llmProvider = Null

\* The request arrives: the handler runs to its await, or to a response.
HandlerArrives ==
    /\ op = "waiting"
    /\ output' = afterArrival(handled(input))
    /\ op' = output'.position
    /\ IF input.fn = "postAnalyze" /\ handled(input).calls # << >>
       THEN llmClient' = serviceClientAfterInit /\ llmProvider' = serviceProviderAfterInit
       ELSE UNCHANGED <<llmClient, llmProvider>>
    /\ UNCHANGED <<input, env, redisClient, cacheEnabled, store>>

\* The external call returns or throws: the handler sends res.json(...), or
\* the response of its catch block.
CallReturns ==
    /\ op = "awaiting"
    /\ op' = "responded"
    /\ output' = handlerRun("responded", Append(output.responses, handled(input).response))
    /\ UNCHANGED <<input, env, redisClient, cacheEnabled, store, llmClient, llmProvider>>

\* The router of the request.
toInsights == "fn" \notin DOMAIN input

toProfitableCrops == ~toInsights /\ input.fn = "postProfitableCrops"

InitRouters == InitPair \/ InitCrops \/ InitHandler

NextRouters ==
    \/ toInsights /\ NextPair
    \/ toProfitableCrops /\ NextCrops
    \/ ~toInsights /\ ~toProfitableCrops /\ (HandlerArrives \/ CallReturns)

\* Every awaited call returns or throws.
SpecRouters == InitRouters /\ [][NextRouters]_vars /\ WF_vars(NextRouters)

----------------------------------------------------------------------------
(* initializeLLMClient() called again and again while the keys of the *)
(* environment change                                                 *)

\* The most calls of initializeLLMClient() that are followed.
MaxInitCalls == 3

\* What a key of the environment can be set to.
KeyValues == {Undefined, Str(""), Str("k1"), Str("k2")}

\* The two files that define initializeLLMClient, each with its own
\* llmClient and llmProvider.
ClientModules == {"backend/llmService.js", "backend/profitabilityEngine.js"}

\* What the calls so far did: their number, the value the last returned,
\* and the clients built with new OpenAI(...).
initRun(calls, returned, built) == [calls |-> calls, returned |-> returned, built |-> built]

InitClient ==
    /\ op = "idle"
    /\ input \in {[module |-> m] : m \in ClientModules}
    /\ output = initRun(0, Undefined, 0)
    /\ env \in {[CACHE_ENABLED |-> Undefined, CACHE_TTL_HOURS |-> Undefined,
                 TOGETHER_API_KEY |-> t, OPENAI_API_KEY |-> o] :
                    t \in KeyValues, o \in KeyValues}
    /\ redisClient = Null
    /\ cacheEnabled = TRUE
    /\ store = {}
    /\ llmClient = Null
    /\ llmProvider = Null

\* process.env.TOGETHER_API_KEY or process.env.OPENAI_API_KEY is set, changed
\* or removed between two calls.
KeyChanges ==
    \E t \in KeyValues, o \in KeyValues :
        /\ env' = [env EXCEPT !.TOGETHER_API_KEY = t, !.OPENAI_API_KEY = o]
        /\ env' # env
        /\ op' = "idle"
        /\ UNCHANGED <<input, output, redisClient, cacheEnabled, store, llmClient,
                       llmProvider>>

\* initializeLLMClient() of the file of this process.
InitializeClientAgain ==
    /\ output.calls < MaxInitCalls
    /\ op' = "initializeLLMClient"
    /\ llmClient' = IF input.module = "backend/llmService.js"
                    THEN serviceClientAfterInit ELSE clientAfterInit
    /\ llmProvider' = IF input.module = "backend/llmService.js"
                      THEN serviceProviderAfterInit ELSE providerAfterInit
    /\ output' = initRun(output.calls + 1, llmClient',
                         output.built + (IF llmClient' # llmClient THEN 1 ELSE 0))
    /\ UNCHANGED <<input, env, redisClient, cacheEnabled, store>>

NextClient ==
    \/ KeyChanges
    \/ InitializeClientAgain

SpecClient == InitClient /\ [][NextClient]_vars

----------------------------------------------------------------------------
(* Properties of the engine *)

\* The tiers as the specification tabulates them, on the raw inputs.
TierCompletion(status) ==
    CASE status = Str("COMPLETED") -> 30
      [] status = Str("IN_PROGRESS") -> 15
      [] OTHER -> 0

TierRoi(roi) ==
    IF ~IsNum(roi) THEN 0
    ELSE CASE roi.v > 5000 -> 30
           [] roi.v > 3000 /\ roi.v <= 5000 -> 25
           [] roi.v > 1000 /\ roi.v <= 3000 -> 15
           [] roi.v > 0 /\ roi.v <= 1000 -> 10
           [] OTHER -> 0

\* yieldQuintals / 75 against 1, 0.8 and 0.6: 75, 60 and 45 quintals.
TierYield(yieldQuintals) ==
    CASE yieldQuintals >= 75 -> 20
      [] yieldQuintals >= 60 /\ yieldQuintals < 75 -> 15
      [] yieldQuintals >= 45 /\ yieldQuintals < 60 -> 10
      [] OTHER -> 0

TierDemand(apmc) ==
    IF apmc = Null THEN 10
    ELSE CASE apmc.demand = "HIGH" -> 20
           [] apmc.demand = "MEDIUM-HIGH" -> 15
           [] apmc.demand = "MEDIUM" -> 10
           [] OTHER -> 0

\* C1: calculateSuccessRate returns the sum of the four tiers (completion
\* status, ROI, yield ratio, market demand), each read off its own input, capped
\* at 100, for every combination of status, ROI, yield and demand.
C1_SuccessRateIsTierSum ==
    op = "calculateSuccessRate" =>
        output = MathMin(100, TierCompletion(input.farmerData.status)
                              + TierRoi(input.profitability.roi)
                              + TierYield(input.profitability.yieldQuintals)
                              + TierDemand(input.apmcData))

\* A call on a boundary of every tier: ROI exactly 50, yield exactly 60
\* quintals, MEDIUM-HIGH demand, crop in progress: 15 + 25 + 15 + 15.
C1_Witness ==
    /\ op = "calculateSuccessRate"
    /\ input.farmerData.status = Str("IN_PROGRESS")
    /\ input.profitability.roi = Num(5000)
    /\ input.profitability.yieldQuintals = 60
    /\ input.apmcData # Null
    /\ input.apmcData.demand = "MEDIUM-HIGH"
    /\ output = 70

\* C2: the successRate of a recommendation, from calculateSuccessRate or from
\* the estimate, is a whole number from 0 to 100, and the four sub-scores of
\* calculateSuccessRate stay within 30, 30, 20 and 20.
C2_SuccessRateBounds ==
    /\ op = "calculateSuccessRate" =>
        /\ output \in 0..100
        /\ completionScore(input.farmerData.status) \in 0..30
        /\ profitabilityScore(input.profitability.roi) \in 0..30
        /\ yieldScore(input.profitability.yieldQuintals) \in 0..20
        /\ demandScore(input.apmcData) \in 0..20
        /\ output <= completionScore(input.farmerData.status)
                     + profitabilityScore(input.profitability.roi)
                     + yieldScore(input.profitability.yieldQuintals)
                     + demandScore(input.apmcData)
    /\ op = "generateCropRecommendation" => output.successRate \in 0..100
    /\ op = "getTopProfitableCrops" =>
        \A i \in 1..Len(output) : output[i].successRate \in 0..100

\* A completed, profitable, full-yield crop in high demand: the four maxima
\* add up to exactly 100.
C2_Witness ==
    /\ op = "generateCropRecommendation"
    /\ input.farmerData # Null
    /\ output.profitability.roi = Num(33151)
    /\ output.successRate = 100

\* A sequence of stages in which every cost that is present is a number.
NumericStages(stages) ==
    /\ IsArray(stages)
    /\ \A i \in 1..Len(stages.items) :
        LET categories == stages.items[i].categories
        IN  categories # Undefined =>
                \A j \in 1..Len(categories.items) :
                    LET data == categories.items[j].data
                    IN  data # Undefined /\ "totalCost" \in DOMAIN data =>
                            IsNum(data.totalCost)

\* The categories of a sequence of stages that carry a totalCost.
CostCells(stages) ==
    {c \in (1..MaxStages + 1) \X (1..MaxCategories + 1) :
        /\ c[1] <= Len(stages.items)
        /\ stages.items[c[1]].categories # Undefined
        /\ c[2] <= Len(stages.items[c[1]].categories.items)
        /\ stages.items[c[1]].categories.items[c[2]].data # Undefined
        /\ "totalCost" \in DOMAIN stages.items[c[1]].categories.items[c[2]].data}

RECURSIVE SumCells(_, _)
SumCells(stages, cells) ==
    IF cells = {} THEN 0
    ELSE LET c == CHOOSE x \in cells : TRUE
         IN  stages.items[c[1]].categories.items[c[2]].data.totalCost.v
                + SumCells(stages, cells \ {c})

\* C3: for a sequence of stages whose costs are numbers,
\* calculateTotalCostFromStages returns the sum of every category's totalCost
\* over all stages; a category without data adds nothing.
C3_TotalCostIsSum ==
    (op = "calculateTotalCostFromStages" /\ NumericStages(input.stages)) =>
        output = Num(SumCells(input.stages, CostCells(input.stages)))

\* Two stages with one category each, costing 1000 and 2500.
C3_Witness ==
    /\ op = "calculateTotalCostFromStages"
    /\ NumericStages(input.stages)
    /\ Len(input.stages.items) = 2
    /\ CostCells(input.stages) = {<<1, 1>>, <<2, 1>>}
    /\ output = Num(3500)

\* C4: when totalCost is 0 the ROI is exactly 0, whatever the profit, in the
\* result of calculateProfitability and in the profitability a recommendation
\* carries; no division by zero shows up as Infinity or NaN.
C4_ZeroCostZeroRoi ==
    /\ op = "calculateProfitability" =>
        (output.totalCost = Num(0) => output.roi = Num(0))
    /\ op = "generateCropRecommendation" =>
        (output.profitability.totalCost = Num(0) => output.profitability.roi = Num(0))

\* No stages recorded, 75 quintals of tomato: profit 315000 on a cost of 0.
C4_Witness ==
    /\ op = "calculateProfitability"
    /\ output.totalCost = Num(0)
    /\ output.profit = Num(315000)
    /\ output.roi = Num(0)

\* The prices calculateExpectedIncome reads from the MSP entry of a key.
MspQuotes(mspKey) ==
    {Prop(mspData[mspKey].msp, "2025-26"), Prop(mspData[mspKey].msp, "2024-25")}

\* The result uses the market quote and nothing else.
UsesMarketQuote(result, apmc, yieldQty) ==
    /\ result.priceSourceUsed = "APMC " \o apmc.region
    /\ result.pricePerQuintal = Num(apmc.avgModalPrice)
    /\ result.expectedIncome = Num(apmc.avgModalPrice * yieldQty)

\* The result uses the MSP entry and nothing else.
UsesMspQuote(result, mspKey, yieldQty) ==
    /\ result.priceSourceUsed = "MSP"
    /\ result.pricePerQuintal \in MspQuotes(mspKey)
    /\ result.expectedIncome = JsMul(result.pricePerQuintal, Num(yieldQty))

\* The result has no price.
UsesNoQuote(result) ==
    /\ result.priceSourceUsed = ""
    /\ result.pricePerQuintal = Num(0)
    /\ result.expectedIncome = Num(0)

\* The priority of the market quote, for a call whose lookups gave apmc and
\* mspKey.
MarketFirst(result, apmc, mspKey, yieldQty) ==
    /\ apmc # Null => UsesMarketQuote(result, apmc, yieldQty)
    /\ (apmc = Null /\ mspKey # 0) => UsesMspQuote(result, mspKey, yieldQty)
    /\ (apmc = Null /\ mspKey = 0) => UsesNoQuote(result)

Descending(recs, strict) ==
    \A i \in 1..(Len(recs) - 1) :
        \/ JsGt(JsSub(recs[i].expectedIncome, recs[i + 1].expectedIncome), 0)
        \/ ~strict /\ recs[i].expectedIncome = recs[i + 1].expectedIncome

\* The number of results asked for: topN, 5 when it is left out.
Asked(topN) == IF topN = Undefined THEN 5 ELSE topN.v

C15_EstimationWithoutFarmerData ==
    op = "generateCropRecommendation" =>
        IF input.farmerData = Null
        THEN /\ output.profitability.totalCost = Num(110000)
             /\ output.profitability.yieldQuintals = 75
             /\ output.expectedIncome = JsMul(output.profitability.pricePerQuintal, Num(75))
             /\ output.profitability.pricePerQuintal
                    = calculateExpectedIncome(input.cropName, 75, "APMC").pricePerQuintal
             /\ output.successRate
                    = (IF getAPMCCropData(input.cropName) = Null THEN 60
                       ELSE IF getAPMCCropData(input.cropName).demand = "HIGH" THEN 78
                       ELSE 65)
             /\ DOMAIN output.profitability
                    = {"totalCost", "expectedIncome", "profit", "roi", "yieldQuintals",
                       "pricePerQuintal", "priceSource"}
        ELSE /\ output.profitability
                    = [calculateProfitability(input.farmerData, input.cropName)
                        EXCEPT !.roi = parseFloat(@)]
             /\ output.successRate
                    = calculateSuccessRate(input.farmerData,
                                           calculateProfitability(input.farmerData,
                                                                  input.cropName),
                                           getAPMCCropData(input.cropName))

\* A crop of the market table whose demand is not HIGH, without farmer
\* data: 65, and the estimate's cost and yield.
C15_Witness ==
    /\ op = "generateCropRecommendation"
    /\ input.farmerData = Null
    /\ input.cropName = "BRINJAL"
    /\ output.successRate = 65
    /\ output.expectedIncome = Num(3167 * 75)
    /\ output.profitability.profit = Num(3167 * 75 - 110000)

\* The numbers among the totalCost values of a sequence of categories, and of
\* a sequence of stages, added up.
RECURSIVE numericCosts(_)
numericCosts(categories) ==
    IF categories = << >> THEN 0
    ELSE (IF Truthy(Head(categories).data)
                /\ IsNum(Prop(Head(categories).data, "totalCost"))
          THEN Head(categories).data.totalCost.v ELSE 0)
            + numericCosts(Tail(categories))

RECURSIVE numericTotal(_)
numericTotal(stages) ==
    IF stages = << >> THEN 0
    ELSE (IF Truthy(Head(stages).categories) /\ IsArray(Head(stages).categories)
          THEN numericCosts(Head(stages).categories.items) ELSE 0)
            + numericTotal(Tail(stages))

\* C16: calculateTotalCostFromStages returns a number for every input: 0 for
\* stages that are absent or no array, and else the sum of the totalCost
\* values that are numbers, a totalCost that is missing or is no number (a
\* string, say) adding nothing.
C16_TotalCostIsAlwaysNumber ==
    op = "calculateTotalCostFromStages" =>
        /\ IsNum(output)
        /\ ~IsArray(input.stages) => output = Num(0)
        /\ IsArray(input.stages) => output = Num(numericTotal(input.stages.items))

\* One text contains the other, whichever way round, both in upper case.
containEachOther(a, b) ==
    includes(toUpperCase(a), toUpperCase(b)) \/ includes(toUpperCase(b), toUpperCase(a))

\* The keys of the table, in its order, that the input matches by key or by
\* alias.
keyOrAliasHits(normalizedName) ==
    {i \in 1..Len(cropNameMapping) :
        \/ containEachOther(normalizedName, cropNameMapping[i].key)
        \/ \E j \in 1..Len(cropNameMapping[i].aliases) :
                containEachOther(normalizedName, cropNameMapping[i].aliases[j])}

\* C18: getAPMCCropData never throws and returns the entry of the key that
\* equals the upper-cased, trimmed input; without such a key the entry of
\* the first key, in the order of the table, such that the input and the key
\* or one of its aliases contain one another; without such a key null. It
\* changes nothing.
C18_ResolverMatchesKeysAndAliases ==
    op = "getAPMCCropData" =>
        /\ ~output.thrown
        /\ input.cropName.t = "string" =>
            LET normalizedName == trim(toUpperCase(input.cropName.s))
                hits == keyOrAliasHits(normalizedName)
            IN  output.value =
                    (IF apmcEntry(normalizedName) # Undefined THEN apmcEntry(normalizedName)
                     ELSE IF hits # {}
                     THEN apmcEntry(cropNameMapping[CHOOSE i \in hits :
                                                        \A j \in hits : i <= j].key)
                     ELSE Null)
        /\ ServicesLoaded

\* The fiscal years of the MSP table, the most recent first.
fiscalYears == <<"2025-26", "2024-25", "2023-24">>

\* The price of the most recent year an entry of the table has a price for;
\* undefined for an entry without prices.
latestPrice(entry) ==
    IF \E i \in 1..Len(fiscalYears) : fiscalYears[i] \in DOMAIN entry.msp
    THEN entry.msp[fiscalYears[CHOOSE i \in 1..Len(fiscalYears) :
                                    /\ fiscalYears[i] \in DOMAIN entry.msp
                                    /\ \A j \in 1..(i - 1) :
                                            fiscalYears[j] \notin DOMAIN entry.msp]]
    ELSE Undefined

\* C19: when calculateExpectedIncome takes the price from the MSP table, the
\* price is that of the most recent fiscal year the matched crop has a price
\* for, and for a crop with a price for some year the price and the expected
\* income are numbers.
C19_MostRecentMspYear ==
    (op = "calculateExpectedIncome" /\ output.priceSourceUsed = "MSP") =>
        /\ output.pricePerQuintal = latestPrice(mspData[findMspKey(input.cropName)])
        /\ latestPrice(mspData[findMspKey(input.cropName)]) # Undefined =>
            /\ IsNum(output.pricePerQuintal)
            /\ IsNum(output.expectedIncome)

\* roi, in hundredths of a percent, is profit / totalCost * 100 rounded to two
\* decimals: it is no further than half a hundredth from the quotient. With
\* a = |profit|, c = totalCost, a = A * c + r1 and 100 * r1 = P * c + r2, the
\* distance of roi / 100 from 100 * a / c is |100 * r2 - m * c| / (100 * c)
\* for m = |roi| - 10000 * A - 100 * P.
roundedToTwoDecimals(roi, profit, totalCost) ==
    LET a == IF profit < 0 THEN 0 - profit ELSE profit
        r == IF roi < 0 THEN 0 - roi ELSE roi
        r1 == a % totalCost
        r2 == (100 * r1) % totalCost
        m == r - 10000 * (a \div totalCost) - 100 * ((100 * r1) \div totalCost)
        distance == 100 * r2 - m * totalCost
    IN  /\ m \in 0..100
        /\ 2 * (IF distance < 0 THEN 0 - distance ELSE distance) <= totalCost
        /\ (roi < 0) => (profit < 0)
        /\ (roi > 0) => (profit > 0)

\* C20: calculateProfitability returns profit = expectedIncome - totalCost
\* and, for a total cost above zero, roi = profit / totalCost * 100 rounded
\* to two decimals. A total cost of 73000 and an expected income of 100000
\* give the profit 27000 and the roi 36.99, which is in the tier above 30
\* of the success rate (25 points).
C20_ProfitAndRoi ==
    /\ (op = "calculateProfitability" /\ IsNum(output.totalCost)
            /\ IsNum(output.expectedIncome)) =>
        /\ output.profit = Num(output.expectedIncome.v - output.totalCost.v)
        /\ output.totalCost.v > 0 =>
            /\ IsNum(output.roi)
            /\ roundedToTwoDecimals(output.roi.v, output.profit.v, output.totalCost.v)
    /\ JsSub(Num(100000), Num(73000)) = Num(27000)
    /\ roiOf(Num(27000), Num(73000)) = Num(3699)
    /\ profitabilityScore(Num(3699)) = 25

\* Tomato with a cost of 73000 and a yield of 60 quintals: the income is
\* 252000, the profit 179000 and the roi 245.2054..., rounded up to 245.21.
C20_Witness ==
    /\ op = "calculateProfitability"
    /\ input.cropName = "TOMATO"
    /\ output.totalCost = Num(73000)
    /\ output.expectedIncome = Num(252000)
    /\ output.profit = Num(179000)
    /\ output.roi = Num(24521)

----------------------------------------------------------------------------
(* Properties of the cache key *)

\* The same properties in another insertion order.
Permuted(obj) ==
    {Obj([i \in 1..Len(obj.props) |-> obj.props[p[i]]]) :
        p \in Permutations(1..Len(obj.props))}

\* The objects with the same keys and the same values as obj, whatever the
\* insertion order, at the top and inside an object-valued parameter.
RECURSIVE NestedReordered(_)
NestedReordered(props) ==
    IF props = << >> THEN {<< >>}
    ELSE {<<[k |-> Head(props).k, v |-> val]>> \o rest :
            val \in (IF IsObj(Head(props).v) THEN Permuted(Head(props).v)
                     ELSE {Head(props).v}),
            rest \in NestedReordered(Tail(props))}

Reorderings(obj) == UNION {Permuted(Obj(props)) : props \in NestedReordered(obj.props)}

\* C8: generateCacheKey does not depend on insertion order: every object with
\* the same keys and the same values as params, inserted in any other order,
\* gets the key params got.
C8_KeyIgnoresInsertionOrder ==
    op = "generateCacheKey" =>
        \A other \in Reorderings(input.params) :
            generateCacheKey(input.prefix, other) = output

\* Two parameters, the second an object of two properties: four insertion
\* orders in all, one key.
C8_Witness ==
    /\ op = "generateCacheKey"
    /\ Len(input.params.props) = 2
    /\ input.params.props[1].k = "crop"
    /\ input.params.props[2].k = "profile"
    /\ Len(input.params.props[2].v.props) = 2
    /\ Cardinality(Reorderings(input.params)) = 4
    /\ output = generateCacheKey(input.prefix,
                                 Obj(<<input.params.props[2], input.params.props[1]>>))

\* The objects that differ from obj in the value at index i only: another
\* value of that parameter, or, for an object-valued parameter, the same
\* object with one of its own values changed.
ChangedAt(obj, i) ==
    LET old == obj.props[i].v
        news == IF IsObj(old)
                THEN {Obj([old.props EXCEPT ![j].v = val]) :
                        j \in 1..Len(old.props), val \in NestedValues}
                ELSE ParamValues(obj.props[i].k)
    IN  {Obj([obj.props EXCEPT ![i].v = new]) : new \in news \ {old}}

SingleChanges(obj) == UNION {ChangedAt(obj, i) : i \in 1..Len(obj.props)}

\* C9: generateCacheKey is sensitive to every parameter value: changing one
\* value of params, at the top or inside an object-valued parameter, gives a
\* different key.
C9_KeySensitiveToEveryValue ==
    op = "generateCacheKey" =>
        \A other \in SingleChanges(input.params) :
            generateCacheKey(input.prefix, other) # output

----------------------------------------------------------------------------
(* Properties of the cache operations *)

\* C10: no cache operation rejects. get resolves to null when the store
\* fails, when the stored text cannot be parsed and on a miss; set, del and
\* exists resolve to false when the store fails (set also when the value
\* cannot be serialized); clearByPrefix resolves to 0 when one of its two
\* store commands fails.
C10_CacheNeverRejects ==
    op \in {"get", "set", "del", "exists", "clearByPrefix"} =>
        /\ output.settled = "fulfilled"
        /\ op = "get" =>
            ((\/ input.storeFails
              \/ input.stored = Null
              \/ input.stored.s \notin {jsonTexts[v] : v \in JsonValues})
                => output.value = Null)
        /\ op = "set" =>
            ((input.storeFails \/ input.value = Circular) => output.value = False)
        /\ op \in {"del", "exists"} => (input.storeFails => output.value = False)
        /\ op = "clearByPrefix" =>
            ((input.keysFails \/ (input.delFails /\ input.matched > 0))
                => output.value = Num(0))

\* A get of a key that is stored with a well-formed text, while the store is
\* down: null, as on a miss.
C10_Witness ==
    /\ op = "get"
    /\ cacheEnabled
    /\ redisClient # Null
    /\ input.storeFails
    /\ input.stored # Null
    /\ input.stored.s \in {jsonTexts[v] : v \in JsonValues}
    /\ output = Fulfilled(Null)

----------------------------------------------------------------------------
(* Properties of the operational details *)

\* The values of the demand enumerations: the three the validation accepts
\* from a reply, and those of a recommendation.
DemandValues ==
    {Str("High"), Str("Medium"), Str("Low"),
     Str("HIGH"), Str("MEDIUM-HIGH"), Str("MEDIUM"), Str("LOW-MEDIUM"), Str("LOW")}

\* Every documented field holds a value of its type or its enumeration.
ValidDetails(d) ==
    /\ IsArray(d.equipmentNeeded)
    /\ IsArray(d.resourceRequirements.fertilizers)
    /\ IsArray(d.resourceRequirements.pesticides)
    /\ IsNum(d.effortDistribution.setup)
    /\ IsNum(d.effortDistribution.maintenance)
    /\ IsNum(d.effortDistribution.harvesting)
    /\ IsNum(d.maturityTime)
    /\ d.resourceRequirements.waterNeeded.t = "string"
    /\ d.marketAnalysis.profitMargin.t = "string"
    /\ d.soilConditions.analysis.t = "string"
    /\ d.riskLevel \in {Str("Low"), Str("Medium"), Str("High")}
    /\ d.soilConditions.suitability \in {Str("Excellent"), Str("Good"), Str("Fair"), Str("Poor")}
    /\ d.marketAnalysis.marketDemand \in DemandValues

\* C7: whatever the external generator does, generateCropOperationalDetails
\* resolves to an object in which every documented field is present and holds
\* a value of its type or enumeration: lists, numbers, strings for
\* waterNeeded, profitMargin and the soil analysis, and the three
\* enumerations.
C7_DetailsAlwaysValid ==
    op = "generateCropOperationalDetails" =>
        /\ output.settled = "fulfilled"
        /\ ValidDetails(output.value)

\* The try block throws: the request failed, or the reply holds no JSON
\* object that parses.
noParseableObject(reply) ==
    \/ reply.error
    \/ reply.content.t # "string"
    \/ matchJson(reply.content.s) = Null
    \/ JSONparse(matchJson(reply.content.s).s) = SyntaxError

\* A call is at the external attempt or at the static fallback, has sent at
\* most one request, turns to the fallback at most once and exactly when
\* there is no client or the attempt failed, and resolves.
detailsRunIsTwoState ==
    /\ op \in {"idle", "external-attempt", "static-fallback", "resolved"}
    /\ op # "idle" =>
        /\ Len(output.calls) <= 1
        /\ output.fallbacks <= 1
        /\ output.promise.settled # "rejected"
    /\ op = "external-attempt" =>
        /\ Len(output.calls) = 1
        /\ output.fallbacks = 0
        /\ Truthy(llmClient)
    /\ op = "static-fallback" =>
        /\ output.fallbacks = 1
        /\ ~Truthy(llmClient) \/ noParseableObject(input.reply)
    /\ op = "resolved" =>
        /\ output.promise.settled = "fulfilled"
        /\ output.promise = generateCropOperationalDetails(llmClient, input.cropName,
                                input.recommendation, input.reply)
        /\ Len(output.calls) = (IF Truthy(llmClient) THEN 1 ELSE 0)
        /\ output.fallbacks = 1 <=> (~Truthy(llmClient) \/ noParseableObject(input.reply))
        /\ output.fallbacks = 1 =>
            output.promise.value = getDefaultOperationalDetails(input.cropName,
                                                                input.recommendation)

\* C21: a call of generateCropOperationalDetails sends at most one request
\* to the external generator; without a generator, when the request throws
\* or when the reply holds no parseable JSON object it turns once to the
\* static fallback; and whenever the external call returns or throws the
\* call ends by resolving to an operational-details object: it never rejects
\* and never sends the request again.
C21_TwoStateMachineNoRetry ==
    /\ [](detailsRunIsTwoState)
    /\ <>(op = "resolved" /\ output.promise.settled = "fulfilled")

\* A request was sent, its reply held no JSON object, and the call resolved
\* with the defaults.
C21_Witness ==
    /\ op = "resolved"
    /\ Len(output.calls) = 1
    /\ output.fallbacks = 1
    /\ ~input.reply.error
    /\ input.reply.content = Str("I cannot help with that.")
    /\ output.promise = Fulfilled(getDefaultOperationalDetails(input.cropName,
                                                               input.recommendation))

----------------------------------------------------------------------------
(* Properties of the endpoints *)

\* The insights endpoint with caching disabled: get resolves to null and
\* set to false without touching the store.
withCachingDisabled(request) ==
    insightsServed(request.body, request.msp, request.reply, Fulfilled(Null),
                   Fulfilled(False))

\* C11: a request to POST /api/next-crop-insights that is served while every
\* command to the store fails gets the status and the body (its timestamp
\* apart) that the same request with the same reply of the external model
\* gets with caching disabled; so does the request served while the cache
\* service is disabled or has no client. A failing store never turns a
\* success into an error.
C11_CacheFailureIsTransparent ==
    op = "postNextCropInsights" =>
        /\ (~unavailable /\ input.storeFails)
                => output.response = withCachingDisabled(input).response
        /\ unavailable => output.response = withCachingDisabled(input).response

\* The store holds a well-formed entry under the key of the request and
\* fails; the request is answered from the external model with success.
C11_Witness ==
    /\ op = "postNextCropInsights"
    /\ cacheEnabled
    /\ redisClient # Null
    /\ input.storeFails
    /\ store # {}
    /\ (CHOOSE e \in store : TRUE).key = insightsKeyOf(input.body)
    /\ JSONparse((CHOOSE e \in store : TRUE).text) # SyntaxError
    /\ output.response.status = 200
    /\ output.response.body.data.aiProjections.estimatedRevenue = Num(360000)
    /\ Len(output.calls) = 3

\* A field a body does not have, or has as null.
missing(x) == x \in {Undefined, Null}

\* The required fields a request lacks; for the insights endpoint also
\* "stages" when stages is not an array of nine.
missingFields(request) ==
    CASE request.fn = "postAnalyze" ->
            {f \in {"cropName"} : missing(request.body[f])}
      [] request.fn = "postNextCropInsights" ->
            {f \in {"landArea", "currentCrop", "stages", "suggestedCrop"} :
                missing(request.body[f])}
            \cup (IF ~IsArray(request.body.stages) \/ Len(request.body.stages.items) # 9
                  THEN {"stages"} ELSE {})
      [] request.fn = "postLossAnalysis" ->
            {f \in {"actualYield", "costs", "income"} : missing(request.body[f])}
      [] request.fn = "postNaturalFarming" ->
            IF missing(request.body.location)
                \/ missing(OptGet(request.body.location, "mandal"))
            THEN {"mandal"} ELSE {}
      [] OTHER -> {}

\* The body of a response names a field: in its error text or in its list
\* of required fields.
names(body, field) ==
    \/ includes(body.error, field)
    \/ /\ "required" \in DOMAIN body
       /\ \E i \in 1..Len(body.required) : includes(body.required[i], field)

\* C12: a request to one of the four POST endpoints that lacks a required
\* field (for the insights endpoint also: whose stages are not an array of
\* nine) is answered with status 400 and a body that names each missing
\* field, and serving it issues no call to the external model and no read
\* or write of the cache; the store is as it was.
C12_ValidationPrecedesComputation ==
    (op \in {"postAnalyze", "postNextCropInsights", "postLossAnalysis", "postNaturalFarming"}
        /\ missingFields(input) # {})
        => /\ output.response.status = 400
           /\ \A f \in missingFields(input) : names(output.response.body, f)
           /\ output.calls = << >>
           /\ store \in StoresOf(input.fn)

\* A request for insights without its stages, to a server whose cache is up
\* and holds an entry and whose key for the external model is set.
C12_Witness ==
    /\ op = "postNextCropInsights"
    /\ input.body.stages = Undefined
    /\ input.body.suggestedCrop = Str("Tomato")
    /\ ~unavailable
    /\ store # {}
    /\ Truthy(env.TOGETHER_API_KEY)
    /\ output.response.status = 400
    /\ output.calls = << >>

\* C13: generateLLMInsights and generateBulkInsights never reject: without
\* a client, and when the external call throws, they resolve to an object
\* whose available is false. POST /api/profitable-crops/analyze, for a crop
\* name that is a string, answers 200 with success true and the analysis
\* computed from the recommendation when the external call throws.
C13_InsightFailuresAreContained ==
    /\ op \in {"generateLLMInsights", "generateBulkInsights"} =>
        /\ output.settled = "fulfilled"
        /\ (llmClient = Null \/ input.reply.error) => output.value.available = False
    /\ (op = "postAnalyze" /\ input.body.cropName.t = "string"
            /\ input.body.cropName.s # "" /\ input.reply.error) =>
        /\ output.response.status = 200
        /\ output.response.body.success = TRUE
        /\ output.response.body.analysis
            = analysisOf(generateCropRecommendation(input.body.cropName.s,
                                                    input.body.farmerData, "0.6"))

\* The analysis of a crop with farmer data, a key being set and the external
\* call throwing: the answer carries the analysis and insights that are not
\* available.
C13_Witness ==
    /\ op = "postAnalyze"
    /\ input.body.cropName = Str("TOMATO")
    /\ input.body.farmerData # Undefined
    /\ input.reply.error
    /\ llmClient # Null
    /\ Len(output.calls) = 1
    /\ output.response.status = 200
    /\ output.response.body.llmInsights.available = False
    /\ output.response.body.llmInsights.error = Str("Connection error.")
    /\ output.response.body.analysis.profitability.roi = "245.21%"

\* C14: the body of every response of the four POST handlers has a boolean
\* success, true when the status is 200 and false when it is 400 or 500,
\* and an error text when success is false.
C14_EveryBodyHasSuccess ==
    op \in {"postAnalyze", "postNextCropInsights", "postLossAnalysis", "postNaturalFarming"}
        => /\ "success" \in DOMAIN output.response.body
           /\ output.response.body.success \in BOOLEAN
           /\ output.response.body.success = (output.response.status = 200)
           /\ ~output.response.body.success => "error" \in DOMAIN output.response.body

\* C17: after initializeLLMClient() the client is the Together AI client
\* whenever TOGETHER_API_KEY is set, whether or not OPENAI_API_KEY is set
\* too, the OpenAI client when only OPENAI_API_KEY is set, and null when
\* neither is set.
C17_TogetherPreferred ==
    op = "initializeLLMClient" =>
        IF Truthy(env.TOGETHER_API_KEY)
        THEN llmClient = TogetherClient /\ llmProvider = Str("together")
        ELSE IF Truthy(env.OPENAI_API_KEY)
        THEN llmClient = OpenAIClient /\ llmProvider = Str("openai")
        ELSE llmClient = Null /\ llmProvider = Null

\* The calls handler i has made to the external model.
llmCallsOf(i) ==
    SelectSeq(servedSoFar(requestOf(i), output[i]).calls, LAMBDA c : c.to = "llm")

\* The values handler i has passed to set.
setCallsOf(i) ==
    SelectSeq(servedSoFar(requestOf(i), output[i]).calls,
              LAMBDA c : c.to = "cache" /\ c.fn = "set")

\* C22: the cache gives no at-most-once computation. A look-up that settles
\* while the key is absent is a miss and, with the external model
\* configured, is followed by this handler's own external call, whatever
\* the other request with the same cache parameters is doing: nothing marks
\* a call in flight. So two requests that both look up before either has
\* written both miss, both call and both write the key.
C22_ColdLookupAlwaysCalls ==
    [][\A i \in Requests :
        (/\ op[i] = "get"
         /\ op'[i] # "get"
         /\ entriesOf(insightsKeyOf(input.body)) = {}
         /\ Truthy(env.TOGETHER_API_KEY))
        => /\ output'[i].cached = Fulfilled(Null)
           /\ op'[i] = "llm"]_vars

\* Both requests missed, both called the external model, both wrote the key
\* and both were answered.
C22_Witness ==
    /\ \A i \in Requests :
        /\ op[i] = "responded"
        /\ output[i].cached = Fulfilled(Null)
        /\ Len(llmCallsOf(i)) = 1
        /\ Len(setCallsOf(i)) = 1
        /\ output[i].written = Fulfilled(True)
        /\ output[i].responses[1].status = 200
    /\ llmCallsOf(1) = llmCallsOf(2)
    /\ entriesOf(insightsKeyOf(input.body)) # {}

\* C23: in POST /api/profitable-crops the requests for operational details
\* are in flight together and their results are put together by index: in
\* whatever order they complete, the i-th recommendation of the response is
\* the i-th ranked crop with the operational details generated for that
\* crop, and the response is sent only when all of them have completed.
C23_RecombinedByIndex ==
    (op = "responded") =>
        /\ Len(output.order) = Len(output.ranked)
        /\ {output.order[k] : k \in 1..Len(output.order)} = 1..Len(output.ranked)
        /\ Len(output.responses) = 1
        /\ output.responses[1].status = 200
        /\ Len(output.responses[1].body.recommendations) = Len(output.ranked)
        /\ \A i \in 1..Len(output.ranked) :
            /\ output.responses[1].body.recommendations[i].crop = output.ranked[i].crop
            /\ output.responses[1].body.recommendations[i].details =
                    generateCropOperationalDetails(llmClient, output.ranked[i].crop,
                                                   output.ranked[i], input.replies[i]).value
            /\ output.responses[1].body.recommendations[i] =
                    formattedRecommendation(output.ranked[i],
                        output.responses[1].body.recommendations[i].details)

\* Three requests completed last first, their details differ from crop to
\* crop, and the response was sent.
C23_Witness ==
    /\ op = "responded"
    /\ output.order = <<3, 2, 1>>
    /\ Truthy(llmClient)
    /\ \A i \in 1..3 : \A j \in 1..3 :
            i # j => output.responses[1].body.recommendations[i].details
                        # output.responses[1].body.recommendations[j].details

\* The look-up of handler i returned an entry, or null.
hit(i) == output[i].cached.settled = "fulfilled" /\ Truthy(output[i].cached.value)

miss(i) == output[i].cached = Fulfilled(Null)

\* The response the handler builds from a pair of insights.
responseFrom(parsedInsights, aiInsights) ==
    insightsRespond(input.body, investmentOfBody(input.body),
                    getMarketData(input.body.suggestedCrop.s, Null),
                    getApplicableGovernmentSchemes(farmerProfileOf(input.body),
                                                   input.body.suggestedCrop),
                    parsedInsights, aiInsights)

\* The entry handler i keeps for the content of its reply, and the same as
\* the store holds it for six hours.
entryOf(i) == entryOfContent(input.replies[i].content.s)

storedEntryOf(i) ==
    [key |-> insightsKeyOf(input.body), text |-> JSONstringify(entryOf(i), Undefined).s,
     ttl |-> 6 * 3600]

\* An answered request whose look-up returned an entry made no external call
\* and no write, and its response is built from the cached insights.
hitIsServedFromCache(i) ==
    (op[i] = "responded" /\ hit(i)) =>
        /\ llmCallsOf(i) = << >>
        /\ setCallsOf(i) = << >>
        /\ output[i].responses =
                <<responseFrom(OptGet(output[i].cached.value, "parsedInsights"),
                               OptGet(output[i].cached.value, "aiInsights"))>>
        /\ output[i].responses[1].status = 200
        /\ output[i].responses[1].body.data.aiInsights
                = Get(output[i].cached.value, "aiInsights")

missCallsOnce(i) ==
    (op[i] = "responded" /\ miss(i)) =>
        /\ Len(llmCallsOf(i)) = (IF Truthy(env.TOGETHER_API_KEY) THEN 1 ELSE 0)
        /\ IF Truthy(env.TOGETHER_API_KEY) /\ input.replies[i].content.t = "string"
           THEN /\ setCallsOf(i) =
                        <<cacheSetCall(insightsKeyOf(input.body), entryOf(i), Num(6))>>
                /\ output[i].responses = <<responseFrom(Get(entryOf(i), "parsedInsights"),
                                                        Get(entryOf(i), "aiInsights"))>>
           ELSE /\ setCallsOf(i) = << >>
                /\ Len(output[i].responses) = 1
                /\ output[i].responses[1].status = 500

\* The step in which set settles and the handler answers: when the cache is
\* available and the store did not fail, the entry is in the store, with 6
\* hours to live, in the state in which the response is sent.
writtenBeforeResponse(i) ==
    (op[i] = "set" /\ op'[i] = "responded") =>
        /\ output'[i].written = Fulfilled(True) => storedEntryOf(i) \in store'
        /\ output'[i].written \in {Fulfilled(True), Fulfilled(False)}
        /\ output'[i].written = Fulfilled(False) => store' = store

named(cropName, words) == \E w \in words : includes(toLowerCase(cropName), w)

\* The category the name is put in: grain before pulse before cash before
\* oilseed, and vegetable when no word is found.
categoryByPrecedence(cropName) ==
    IF named(cropName, {"rice", "wheat", "maize"}) THEN "grain"
    ELSE IF named(cropName, {"moong", "tur", "arhar", "dal"}) THEN "pulse"
    ELSE IF named(cropName, {"cotton", "sugarcane"}) THEN "cash"
    ELSE IF named(cropName, {"groundnut", "sesamum", "til"}) THEN "oilseed"
    ELSE "vegetable"

\* The request was answered by the static fallback: there is no client, or
\* the external call failed.
answeredByFallback ==
    /\ op = "generateCropOperationalDetails"
    /\ llmClient = Null \/ input.reply.error

\* C25: the static fallback classifies the crop by case-insensitive substring
\* match with the precedence grain (rice, wheat, maize), pulse (moong, tur,
\* arhar, dal), cash (cotton, sugarcane), oilseed (groundnut, sesamum, til),
\* otherwise vegetable, and returns the template of that category together
\* with marketAnalysis {profitMargin '20%', marketDemand: the
\* recommendation's demand or 'Medium'}. BRINJAL without a client yields the
\* vegetable template: equipment Tractor, Drip Irrigation, Sprayer,
\* Harvester; maturityTime 90; riskLevel Medium.
C25_StaticFallbackByCategory ==
    answeredByFallback =>
        /\ output.settled = "fulfilled"
        /\ \A f \in DOMAIN defaults.vegetable :
                output.value[f] = defaults[categoryByPrecedence(input.cropName)][f]
        /\ DOMAIN output.value = DOMAIN defaults.vegetable \cup {"marketAnalysis"}
        /\ output.value.marketAnalysis =
                [profitMargin |-> Str("20%"),
                 marketDemand |-> IF input.recommendation.demand = ""
                                  THEN Str("Medium")
                                  ELSE Str(input.recommendation.demand)]
        /\ input.cropName = "BRINJAL" =>
                /\ output.value.equipmentNeeded =
                        Arr(<<Str("Tractor"), Str("Drip Irrigation"), Str("Sprayer"),
                              Str("Harvester")>>)
                /\ output.value.maturityTime = Num(90)
                /\ output.value.riskLevel = Str("Medium")
        /\ input.cropName = "Maize + Tur" => output.value.maturityTime = Num(120)
        /\ input.cropName = "Moong + Cotton" => output.value.maturityTime = Num(80)
        /\ input.cropName = "Cotton + Groundnut" => output.value.maturityTime = Num(150)

\* BRINJAL was asked about in a process without a key, and the vegetable
\* template came back.
C25_Witness ==
    /\ answeredByFallback
    /\ llmClient = Null
    /\ input.cropName = "BRINJAL"
    /\ output.value.laborRequirement = Num(120)
    /\ output.value.marketAnalysis.profitMargin = Str("20%")

\* The requests of the state with the position and the responses of each.
answered ==
    IF toInsights
    THEN {[finished |-> op[i] = "responded", responses |-> output[i].responses] :
            i \in Requests}
    ELSE {[finished |-> op = "responded",
           responses |-> IF output = Null THEN << >> ELSE output.responses]}

\* A step leaves a finished handler finished, and the response it sent as
\* it is.
staysAnswered ==
    IF toInsights
    THEN \A i \in Requests :
            op[i] = "responded" =>
                op'[i] = "responded" /\ output'[i].responses = output[i].responses
    ELSE op = "responded" => op' = "responded" /\ output'.responses = output.responses

\* C26: every request handled by a router handler receives exactly one
\* response, a 200, the 400 of the validation or the 500 of the catch block,
\* provided each awaited external call returns or throws: no handler sends
\* two responses, a handler that has finished has sent one and one that has
\* not finished has sent none, and nothing is sent after a handler has
\* finished.
C26_ExactlyOneResponse ==
    /\ [](\A r \in answered :
            /\ Len(r.responses) = (IF r.finished THEN 1 ELSE 0)
            /\ \A k \in 1..Len(r.responses) : r.responses[k].status \in {200, 400, 500})
    /\ [][staysAnswered]_vars

\* A loss analysis whose external call threw was answered once, with the 500
\* of the catch block.
C26_Witness ==
    /\ ~toInsights
    /\ input.fn = "postLossAnalysis"
    /\ input.reply.error
    /\ op = "responded"
    /\ Len(output.responses) = 1
    /\ output.responses[1].status = 500

\* The entry kept for a reply that is no JSON, and the same in the store.
rawEntry == insightsEntry(Obj(<<[k |-> "rawInsights", v |-> Str(notJson)]>>), Str(notJson))

rawStored ==
    [key |-> insightsKeyOf(input.body), text |-> JSONstringify(rawEntry, Undefined).s,
     ttl |-> 6 * 3600] \in store

\* The response is the unparsed fallback: no factors, no recommendations, no
\* projections, and the reply as it came.
isUnparsedFallback(response) ==
    /\ response.status = 200
    /\ response.body.data.riskFactors = Arr(<< >>)
    /\ response.body.data.successFactors = Arr(<< >>)
    /\ response.body.data.recommendations = Arr(<< >>)
    /\ response.body.data.aiProjections.expectedYield.kg = Null
    /\ response.body.data.aiProjections.expectedYield.quintals = Null
    /\ response.body.data.aiProjections.estimatedRevenue = Null
    /\ response.body.data.aiProjections.estimatedProfit = Null
    /\ response.body.data.comparisonWithPreviousCrop.comparison = notFormatted
    /\ response.body.data.aiInsights = Str(notJson)

\* The look-up of handler i returns in this step.
lookupReturns(i) == op[i] = "get" /\ op'[i] # "get"

\* The original statement: every look-up made while the unparsed entry is in
\* the store returns it.
C27_EveryLookupReturnsTheEntry ==
    [][\A i \in Requests :
            (lookupReturns(i) /\ rawStored) => output'[i].cached = Fulfilled(rawEntry)]_vars

\* A reply that is no JSON is passed to set as {rawInsights: text}, and the
\* request is answered with the unparsed fallback.
unparsedIsWritten(i) ==
    (/\ op[i] = "responded" /\ miss(i)
     /\ Truthy(env.TOGETHER_API_KEY)
     /\ input.replies[i].content = Str(notJson)) =>
        /\ setCallsOf(i) = <<cacheSetCall(insightsKeyOf(input.body), rawEntry, Num(6))>>
        /\ Len(output[i].responses) = 1
        /\ isUnparsedFallback(output[i].responses[1])

\* A request whose look-up returned the unparsed entry is answered with the
\* unparsed fallback without an external call.
unparsedIsServed(i) ==
    (op[i] = "responded" /\ output[i].cached = Fulfilled(rawEntry)) =>
        /\ llmCallsOf(i) = << >>
        /\ setCallsOf(i) = << >>
        /\ Len(output[i].responses) = 1
        /\ isUnparsedFallback(output[i].responses[1])

\* C27, amended: a reply that fails JSON parsing is still written to the
\* cache, as {rawInsights: text}. A later request with the same key whose
\* look-up returns that entry - the entry has not expired or been deleted
\* and the store answers the look-up - receives the unparsed fallback (empty
\* riskFactors, successFactors and recommendations, null projections)
\* without a new external call. A look-up made while the entry is in the
\* store returns the entry, or null when the store fails: then the request
\* is served as a miss.
C27_UnparsedReplyIsCached ==
    /\ [](\A i \in Requests : unparsedIsWritten(i) /\ unparsedIsServed(i))
    /\ [][\A i \in Requests :
            (lookupReturns(i) /\ rawStored) =>
                \/ output'[i].cached = Fulfilled(rawEntry) /\ op'[i] = "responded"
                \/ output'[i].cached = Fulfilled(Null)]_vars

\* The first request got a sentence for a reply and wrote it; the second,
\* whose own external call would have returned the object asked for, found
\* the entry and was answered with the unparsed fallback.
C27_Witness ==
    /\ op[1] = "responded" /\ miss(1)
    /\ input.replies[1].content = Str(notJson)
    /\ output[1].written = Fulfilled(True)
    /\ input.replies[2].content = Str(JSONstringify(FullInsights, Undefined).s)
    /\ op[2] = "responded"
    /\ output[2].cached = Fulfilled(rawEntry)
    /\ llmCallsOf(2) = << >>
    /\ isUnparsedFallback(output[2].responses[1])

\* The provider named for a client.
providerOf(client) ==
    IF client = TogetherClient THEN Str("together")
    ELSE IF client = OpenAIClient THEN Str("openai") ELSE Null

\* A step that starts with a client leaves client and provider as they are,
\* and a call made then returns that client.
clientIsKept ==
    llmClient # Null =>
        /\ llmClient' = llmClient
        /\ llmProvider' = llmProvider
        /\ output'.calls # output.calls => output'.returned = llmClient

\* A call made without a client reads the keys as they are at the call: it
\* leaves the handle null when neither is set, and builds a client when one
\* is.
keysAreReadAtTheCall ==
    (llmClient = Null /\ output'.calls # output.calls) =>
        /\ (llmClient' = Null) = (~Truthy(env.TOGETHER_API_KEY) /\ ~Truthy(env.OPENAI_API_KEY))
        /\ output'.returned = llmClient'

\* C28: the client is memoized over any sequence of initializeLLMClient
\* calls. llmProvider is non-null exactly when llmClient is non-null; once a
\* client is created, every later call returns that client and the provider
\* never changes, whatever happens to the keys of the environment; while no
\* key is configured the handle stays null and each call reads the
\* environment again.
C28_ClientIsMemoized ==
    /\ [](/\ (llmProvider # Null) = (llmClient # Null)
          /\ llmProvider = providerOf(llmClient)
          /\ llmClient \in {Null, TogetherClient, OpenAIClient}
          /\ output.built <= 1
          /\ output.built = (IF llmClient = Null THEN 0 ELSE 1))
    /\ [][clientIsKept /\ keysAreReadAtTheCall]_vars

\* A first call found no key, a second, after TOGETHER_API_KEY was set,
\* built the client, and a third, after the key was removed and
\* OPENAI_API_KEY set, returned the same client.
C28_Witness ==
    /\ output.calls = 3
    /\ output.built = 1
    /\ output.returned = TogetherClient
    /\ llmProvider = Str("together")
    /\ ~Truthy(env.TOGETHER_API_KEY)
    /\ Truthy(env.OPENAI_API_KEY)

\* The two objects have the same fields, each with the same value.
agree(a, b) == DOMAIN a = DOMAIN b /\ \A f \in DOMAIN a : a[f] = b[f]

\* C29: the two static fallbacks agree field for field for every crop name
\* and recommendation: what getDefaultOperationalDetailsFallback of
\* backend/profitabilityEngine.js returns is what getDefaultOperationalDetails
\* of llmService.js returns, so the result of the engine's
\* generateCropOperationalDetails for a request without a usable reply does
\* not depend on which of the two produced it.
C29_FallbacksAgree ==
    /\ op = "returned by the fallback" =>
            /\ output.settled = "fulfilled"
            /\ agree(output.value,
                     getDefaultOperationalDetails(input.cropName, input.recommendation))
            /\ \A f \in {"effortDistribution", "resourceRequirements", "soilConditions",
                         "marketAnalysis"} :
                    agree(output.value[f],
                          getDefaultOperationalDetails(input.cropName,
                                                       input.recommendation)[f])
    /\ (op = "returned by llmService" /\ (llmClient = Null \/ input.reply.error)) =>
            output = Fulfilled(getDefaultOperationalDetailsFallback(input.cropName,
                                                                    input.recommendation))

\* A mixed stand of maize and tur was answered by the engine's own fallback
\* with the grain template and the market analysis.
C29_Witness ==
    /\ op = "returned by the fallback"
    /\ input.cropName = "Maize + Tur"
    /\ output.value.maturityTime = Num(120)
    /\ output.value.marketAnalysis.profitMargin = Str("20%")

\* The farmer's record has no yield, or a yield of 0.
withoutYield(farmerData) ==
    Truthy(farmerData) /\ farmerData.cropYield \in {Undefined, Num(0)}

\* C30: in calculateProfitability a cropYield that is absent or 0 is replaced
\* by 7500 kg, that is 75 quintals: a farmer with no or zero yield gets
\* expectedIncome = price per quintal x 75 and, in the success rate, the full
\* 20 points of the yield step. Any other yield gives yieldQuintals =
\* cropYield / 100.
C30_DefaultYield ==
    /\ op = "calculateProfitability" =>
        IF withoutYield(input.farmerData)
        THEN /\ output.yieldQuintals = 75
             /\ output.expectedIncome = JsMul(output.pricePerQuintal, Num(75))
             /\ yieldScore(output.yieldQuintals) = 20
        ELSE /\ output.yieldQuintals * 100 = input.farmerData.cropYield.v
             /\ output.expectedIncome
                    = JsMul(output.pricePerQuintal, Num(output.yieldQuintals))
    /\ (op = "generateCropRecommendation" /\ withoutYield(input.farmerData)) =>
        /\ output.profitability.yieldQuintals = 75
        /\ output.successRate =
                MathMin(100, completionScore(input.farmerData.status)
                             + profitabilityScore(output.profitability.roi)
                             + 20
                             + demandScore(getAPMCCropData(input.cropName)))

\* A tomato farmer with a recorded yield of 0: 75 quintals at 4200 make
\* 315000.
C30_Witness ==
    /\ op = "calculateProfitability"
    /\ input.cropName = "TOMATO"
    /\ input.farmerData.cropYield = Num(0)
    /\ output.yieldQuintals = 75
    /\ output.pricePerQuintal = Num(4200)
    /\ output.expectedIncome = Num(315000)

=============================================================================
